---- MODULE Spec2Model ----
(***************************************************************************)
(* Request-dispatch core of the API gateway (src/api_gateway/index.js,     *)
(* the version with rate limiting and domain events, lines 450-1062):      *)
(* rate limiters, authenticateJWT, requireRoles, the two opossum circuit   *)
(* breakers and the route handlers, together with the parts of the users   *)
(* service (src/unnamed/part_002) the gateway's credential routes reach.   *)
(*                                                                         *)
(* Time is counted in ticks of 1000 ms: the breaker's rolling window       *)
(* rotates one bucket per tick, jsonwebtoken compares `exp` in seconds.    *)
(***************************************************************************)
EXTENDS Integers, Sequences, FiniteSets, TLC

(***************************************************************************)
(* Bounds of the model                                                     *)
(***************************************************************************)
MaxReq == 2          \* request slots (requests in progress at once)
MaxTime == 6         \* last tick of the clock
MaxCalls == 3        \* requests sent in the breaker specification
MaxOver == 2         \* requests a client may send beyond a limiter's max

(***************************************************************************)
(* Program constants                                                       *)
(***************************************************************************)
Timeout == 3                  \* circuitOptions.timeout, 3000 ms
ErrorThresholdPercentage == 50
ResetTimeout == 3             \* circuitOptions.resetTimeout, 3000 ms
VolumeThreshold == 0          \* opossum's default, not overridden
RollingCountBuckets == 10     \* opossum's default: 10 buckets of 1000 ms
GeneralMax == 100             \* generalLimiter.max
AuthMax == 5                  \* authLimiter.max

Upstreams == {"users", "orders"}
Clients == {"ip1", "ip2"}
Slots == 1..MaxReq

NoTimer == -1
NoUser == [present |-> FALSE, hasRoles |-> FALSE, roles |-> {}]
NoBody == [email |-> "-", password |-> "-", name |-> "-"]

Max2(a, b) == IF a >= b THEN a ELSE b

(***************************************************************************)
(* Roles and routes                                                        *)
(***************************************************************************)
ROLES == {"Customer", "Engineer", "Manager", "Admin"}

\* One entry per route of the gateway: the upstream its handler fires (first),
\* the middleware on the route (authLimiter, authenticateJWT, requireRoles
\* with its allowed roles; {} = no role guard) and the shape of the
\* handler: "forward" sends the upstream's status and body as they are,
\* "list" wraps a 200 answer in the pagination envelope, "local" answers
\* without an upstream, "details" fires both breakers and aggregates the
\* two results, "create", "status" and "cancel" publish a domain event
\* after the upstream's success ("status" reads the order first).
Rt(up, lim, auth, roles, kind) ==
    [up |-> up, authLimited |-> lim, auth |-> auth, roles |-> roles, kind |-> kind]

RouteTable ==
    [ usersStatus   |-> Rt("users",  FALSE, FALSE, {}, "forward"),
      usersHealth   |-> Rt("users",  FALSE, FALSE, {}, "forward"),
      getProfile    |-> Rt("users",  FALSE, TRUE,  {}, "forward"),
      putProfile    |-> Rt("users",  FALSE, TRUE,  {}, "forward"),
      getUser       |-> Rt("users",  FALSE, TRUE,  {"Manager", "Admin"}, "forward"),
      getUsers      |-> Rt("users",  FALSE, TRUE,  {"Manager", "Admin"}, "list"),
      postUser      |-> Rt("users",  FALSE, TRUE,  {"Admin"}, "forward"),
      deleteUser    |-> Rt("users",  FALSE, TRUE,  {"Admin"}, "forward"),
      putUser       |-> Rt("users",  FALSE, TRUE,  {"Admin"}, "forward"),
      register      |-> Rt("users",  TRUE,  FALSE, {}, "forward"),
      login         |-> Rt("users",  TRUE,  FALSE, {}, "forward"),
      ordersHealth  |-> Rt("orders", FALSE, FALSE, {}, "forward"),
      ordersStatus  |-> Rt("orders", FALSE, FALSE, {}, "forward"),
      ordersMy      |-> Rt("orders", FALSE, TRUE,  {}, "forward"),
      getOrder      |-> Rt("orders", FALSE, TRUE,  {"Engineer", "Manager", "Admin"}, "forward"),
      getOrders     |-> Rt("orders", FALSE, TRUE,  {"Engineer", "Manager", "Admin"}, "forward"),
      deleteOrder   |-> Rt("orders", FALSE, TRUE,  {"Manager", "Admin"}, "forward"),
      putOrder      |-> Rt("orders", FALSE, TRUE,  {"Manager", "Admin"}, "forward"),
      userDetails   |-> Rt("users",  FALSE, TRUE,  {"Manager", "Admin"}, "details"),
      postOrder     |-> Rt("orders", FALSE, TRUE,  {"Customer", "Manager", "Admin"}, "create"),
      patchStatus   |-> Rt("orders", FALSE, TRUE,  {"Engineer", "Manager", "Admin"}, "status"),
      patchCancel   |-> Rt("orders", FALSE, TRUE,  {"Manager", "Admin"}, "cancel"),
      health        |-> Rt("none",   FALSE, FALSE, {}, "local"),
      status        |-> Rt("none",   FALSE, FALSE, {}, "local") ]

RouteIds == DOMAIN RouteTable
RoleGuarded(rt) == RouteTable[rt].roles # {}

(***************************************************************************)
(* Credentials: the Authorization header of a request                      *)
(***************************************************************************)
\* kind: "absent"  no Authorization header
\*       "basic"   a header that does not start with "Bearer "
\*       "empty"   "Bearer " followed by nothing
\*       "badsig"  a Bearer token whose signature does not verify
\*       "signed"  a Bearer token signed with JWT_SECRET, payload
\*                 {id, roles, exp}; hasRoles = FALSE: a payload without
\*                 a roles array
\* id: the user the token was issued to (user 1 where nothing else is said)
Cred(kind, hasRoles, roles, exp) ==
    [kind |-> kind, hasRoles |-> hasRoles, roles |-> roles, exp |-> exp,
     id |-> 1]

\* jwt.verify(token, JWT_SECRET): the decoded payload, or a throw when the
\* signature is wrong or clockTimestamp >= payload.exp
JwtVerifies(cred, t) == cred.kind = "signed" /\ t < cred.exp

\* the Authorization header is absent or does not carry a Bearer token
AuthMissingHeader(cred) == cred.kind \in {"absent", "basic", "empty"}

\* variant: a verifier that does not look at exp
authenticateIgnoringExp(cred, t) ==
    IF AuthMissingHeader(cred)
      THEN [status |-> 401, body |-> "tokenMissing", user |-> NoUser]
    ELSE IF cred.kind = "signed"
      THEN [status |-> 0, body |-> "next",
            user |-> [present |-> TRUE, hasRoles |-> cred.hasRoles,
                      roles |-> cred.roles]]
    ELSE [status |-> 401, body |-> "tokenInvalid", user |-> NoUser]

\* authenticateJWT: the outcome (0 = next()) and req.user
authenticateJWT(cred, t) ==
    IF AuthMissingHeader(cred)
      THEN [status |-> 401, body |-> "tokenMissing", user |-> NoUser]
    ELSE IF JwtVerifies(cred, t)
      THEN [status |-> 0, body |-> "next",
            user |-> [present |-> TRUE, hasRoles |-> cred.hasRoles,
                      roles |-> cred.roles]]
    ELSE [status |-> 401, body |-> "tokenInvalid", user |-> NoUser]

\* variant: every authenticated caller has permission
HasPermissionAlways(allowedRoles, user) == TRUE

\* hasPermission: some role of the user is an allowed role
HasPermission(allowedRoles, user) == allowedRoles \cap user.roles # {}

\* variant: a role guard that answers 403 to a request without claims
requireRolesForbidden(allowedRoles, user) ==
    IF ~user.present \/ ~user.hasRoles
      THEN [status |-> 403, body |-> "rolesNotFound"]
    ELSE IF ~HasPermission(allowedRoles, user)
      THEN [status |-> 403, body |-> "accessDenied"]
    ELSE [status |-> 0, body |-> "next"]

\* requireRoles(allowedRoles)(req): 0 = next()
requireRoles(allowedRoles, user) ==
    IF ~user.present
      THEN [status |-> 401, body |-> "authRequired"]
    ELSE IF ~user.hasRoles
      THEN [status |-> 403, body |-> "rolesNotFound"]
    ELSE IF ~HasPermission(allowedRoles, user)
      THEN [status |-> 403, body |-> "accessDenied"]
    ELSE [status |-> 0, body |-> "next"]

(***************************************************************************)
(* Circuit breaker (opossum) as configured by circuitOptions               *)
(***************************************************************************)
Bucket(f, x) == [fires |-> f, failures |-> x]
EmptyWindow == [i \in 1..RollingCountBuckets |-> Bucket(0, 0)]

RECURSIVE SumFires(_, _), SumFailures(_, _)
SumFires(w, i) == IF i = 0 THEN 0 ELSE w[i].fires + SumFires(w, i - 1)
SumFailures(w, i) == IF i = 0 THEN 0 ELSE w[i].failures + SumFailures(w, i - 1)

\* circuit.stats: the sums over the rolling window
Stats(b) == [fires |-> SumFires(b.window, RollingCountBuckets),
             failures |-> SumFailures(b.window, RollingCountBuckets)]

NewCircuit == [state |-> "closed", pendingClose |-> FALSE,
               resetTimer |-> NoTimer, window |-> EmptyWindow]

\* the 'fire' / 'failure' listeners increment the current bucket
IncFires(b) ==
    [b EXCEPT !.window[1].fires = @ + 1]
IncFailures(b) ==
    [b EXCEPT !.window[1].failures = @ + 1]

\* the status interval: drop the oldest bucket, open a new one
RotateWindow(b) ==
    [b EXCEPT !.window = [i \in 1..RollingCountBuckets |->
                            IF i = 1 THEN Bucket(0, 0) ELSE b.window[i - 1]]]

\* circuit.open(): no effect when already open; the 'open' listener arms
\* the reset timer
CircuitOpen(b, t) ==
    IF b.state = "open" THEN b
    ELSE [b EXCEPT !.state = "open", !.pendingClose = FALSE,
                   !.resetTimer = t + ResetTimeout]

\* circuit.close(): clears the reset timer; the statistics are kept
CircuitClose(b) ==
    IF b.state = "closed" THEN b
    ELSE [b EXCEPT !.state = "closed", !.pendingClose = FALSE,
                   !.resetTimer = NoTimer]

\* the reset timer's callback
CircuitHalfOpen(b) ==
    [b EXCEPT !.state = "halfOpen", !.pendingClose = TRUE,
              !.resetTimer = NoTimer]

\* fire(): is the call let through to the action?
CircuitAdmits(b) == b.state = "closed" \/ b.pendingClose

\* variant: a fire that leaves pendingClose set
CircuitFireKeepsPending(b) == IncFires(b)

\* fire(): 'fire' is emitted first; a call let through clears pendingClose
CircuitFire(b) ==
    IF CircuitAdmits(b) THEN [IncFires(b) EXCEPT !.pendingClose = FALSE]
    ELSE IncFires(b)

\* variant: a resolved action that is counted as a failure
CircuitSuccessCounted(b) == IncFailures(b)

\* variant: a success that leaves a half-open breaker as it is
CircuitSuccessNoClose(b) == b

\* the action's promise resolved: 'success'; a half-open breaker closes
CircuitSuccess(b) ==
    IF b.state = "halfOpen" THEN CircuitClose(b) ELSE b

\* does the error rate of the window exceed the threshold?
\* (failures / fires * 100 > errorThresholdPercentage, fires = 0 gives Infinity)
ErrorRateExceeded(s) ==
    s.failures * 100 > ErrorThresholdPercentage * s.fires

\* variant: a failure that opens the breaker whatever the error rate
CircuitFailAlwaysOpens(b, t) == CircuitOpen(IncFailures(b), t)

\* variant: a failure that is counted and never opens the breaker
CircuitFailNeverOpens(b, t) == IncFailures(b)

\* fail(): 'failure' is emitted, then the breaker opens when the error rate
\* exceeds the threshold or the breaker is half-open
CircuitFail(b, t) ==
    LET b1 == IncFailures(b)
        s == Stats(b1)
    IN IF s.fires < VolumeThreshold /\ b1.state # "halfOpen" THEN b1
       ELSE IF ErrorRateExceeded(s) \/ b1.state = "halfOpen"
              THEN CircuitOpen(b1, t)
       ELSE b1

\* what fire() resolves to
Fallback == [kind |-> "fallback", status |-> 0]
Response(st) == [kind |-> "response", status |-> st]
NoResult == [kind |-> "none", status |-> 0]

(***************************************************************************)
(* Users service: the store and the credential routes                      *)
(***************************************************************************)
BadEmail == "not-an-email"
Emails == {"a@x"}

\* z.string().email(): a well-formed address
ValidEmail(e) == e # BadEmail

\* loginSchema.safeParse / registerSchema.safeParse
loginSchema(body) == ValidEmail(body.email) /\ body.password # ""
registerSchema(body) ==
    ValidEmail(body.email) /\ body.password # "" /\ body.name # ""

\* variant: a lookup that finds nobody
FindByEmailNobody(db, email) == {}

\* Object.values(fakeUsersDb).find(u => u.email === email)
FindByEmail(db, email) == {id \in DOMAIN db : db[id].email = email}

\* POST /users/login: the status the users service answers with
LoginStatus(db, body) ==
    IF ~loginSchema(body) THEN 400
    ELSE IF \E id \in FindByEmail(db, body.email) :
              db[id].passwordHash = body.password
      THEN 200
    ELSE 401

\* POST /users/register: the status, and the store after the request
RegisterStatus(db, body) ==
    IF ~registerSchema(body) THEN 400
    ELSE IF FindByEmail(db, body.email) # {} THEN 409
    ELSE 201

\* a field that the object carries
Has(obj, f) == f \in DOMAIN obj

\* createUserModel(userData) with the id generateUserId returns:
\* passwordHash: userData.passwordHash || userData.password,
\* roles: userData.roles || [ROLES.CUSTOMER]
createUserModel(id, userData) ==
    [id |-> id, email |-> userData.email,
     passwordHash |-> IF Has(userData, "passwordHash")
                        THEN userData.passwordHash
                      ELSE userData.password,
     roles |-> IF Has(userData, "roles") THEN userData.roles
               ELSE {"Customer"}]

\* variant: a registration that hands the whole body to createUserModel
RegisterDataAsSent(body) == body

\* what POST /users/register hands to createUserModel: email, password and
\* name of the parsed body (registerSchema keeps no other field) and the
\* roles [ROLES.CUSTOMER]
RegisterData(body) ==
    [email |-> body.email, password |-> body.password, name |-> body.name,
     roles |-> {"Customer"}]

\* POST /users (createUserSchema keeps email, password, passwordHash, name
\* and roles; its refinements are not modelled apart from registerSchema):
\* the answer's status, the store and the next id after
UserCreate(db, nextId, body) ==
    LET st == RegisterStatus(db, body) IN
    [status |-> st,
     db |-> IF st = 201
              THEN [id \in DOMAIN db \cup {nextId} |->
                      IF id = nextId THEN createUserModel(nextId, body)
                      ELSE db[id]]
            ELSE db,
     nextId |-> IF st = 201 THEN nextId + 1 ELSE nextId]

\* POST /users/register: the answer's status, the store and the next id
UserRegister(db, nextId, body) == UserCreate(db, nextId, RegisterData(body))

(***************************************************************************)
(* Path parameters and their conversions                                   *)
(***************************************************************************)
\* the strings a client puts in the place of an id in a path
IdStrings == {"1", "2", "1e1", "1abc"}

\* NaN, which equals no number, itself included
NaN == -1

\* parseInt(s): the integer the leading digits of s denote
ParseInt(s) ==
    CASE s = "1" -> 1 [] s = "2" -> 2 [] s = "1e1" -> 1 [] s = "1abc" -> 1
      [] s = "0" -> 0 [] s = "-5" -> 0 - 5 [] s = "7" -> 7 [] s = "500" -> 500
      [] OTHER -> NaN

\* Number(s), the conversion == applies to a string compared with a
\* number: the number the whole of s denotes
ToNumber(s) ==
    CASE s = "1" -> 1 [] s = "2" -> 2 [] s = "1e1" -> 10 [] OTHER -> NaN

\* n == s for a number n and a string s
LooseEquals(n, s) == ToNumber(s) # NaN /\ n = ToNumber(s)

(***************************************************************************)
(* Users service and orders service: the routes the aggregated read and    *)
(* the order routes of the gateway reach                                   *)
(***************************************************************************)
\* a response with a body: Response(st) extended by the part of the body
\* the gateway reads
RespData(st, data) == [kind |-> "response", status |-> st, data |-> data]

\* GET /users/:userId of the users service: the user's id stands for the
\* sanitized user record
GetUser(db, s) ==
    IF ParseInt(s) \in DOMAIN db THEN RespData(200, ParseInt(s))
    ELSE RespData(404, 0)

\* updateUserModel(existingUser, updates): email, passwordHash and roles
\* are replaced by the update's when it has them
updateUserModel(existingUser, updates) ==
    [existingUser EXCEPT
       !.email = IF updates.email # "-" THEN updates.email ELSE @,
       !.passwordHash = IF Has(updates, "passwordHash")
                          THEN updates.passwordHash ELSE @,
       !.roles = IF Has(updates, "roles") THEN updates.roles ELSE @]

\* variant: a profile update that applies the whole body
ProfileUpdatesAsSent(body) == body

\* what PUT /users/profile/:userId applies: the email (and name) of the
\* parsed body; the stored user keeps every other field (...user)
ProfileUpdates(body) == [email |-> body.email]

\* PUT /users/:userId and PUT /users/profile/:userId with path parameter s
\* and a body whose email is updates.email ("-" when it has none): 404 for
\* an unknown user, 400 for a malformed email, 409 when another user has
\* the email, else the user is stored with the email
UserUpdate(db, nextId, s, updates) ==
    LET userId == ParseInt(s) IN
    IF userId \notin DOMAIN db THEN [status |-> 404, db |-> db, nextId |-> nextId]
    ELSE IF updates.email # "-" /\ ~ValidEmail(updates.email)
      THEN [status |-> 400, db |-> db, nextId |-> nextId]
    ELSE IF /\ updates.email # "-"
            /\ \E id \in FindByEmail(db, updates.email) : db[id].id # userId
      THEN [status |-> 409, db |-> db, nextId |-> nextId]
    ELSE [status |-> 200,
          db |-> [db EXCEPT ![userId] = updateUserModel(@, updates)],
          nextId |-> nextId]

\* DELETE /users/:userId
UserDelete(db, nextId, s) ==
    LET userId == ParseInt(s) IN
    IF userId \notin DOMAIN db THEN [status |-> 404, db |-> db, nextId |-> nextId]
    ELSE [status |-> 200,
          db |-> [id \in DOMAIN db \ {userId} |-> db[id]],
          nextId |-> nextId]

\* a field that is absent (undefined)
Undefined == -2

\* !x for a number or an absent field
Falsy(x) == x = Undefined \/ x = 0 \/ x = NaN

\* Math.max and Math.min: NaN when an argument is NaN
MathMax(a, b) == IF a = NaN \/ b = NaN THEN NaN ELSE IF a > b THEN a ELSE b
MathMin(a, b) == IF a = NaN \/ b = NaN THEN NaN ELSE IF a < b THEN a ELSE b

\* Math.ceil(a / b) for a >= 0 and b >= 1, or b NaN
MathCeilDiv(a, b) == IF b = NaN THEN NaN ELSE (a + b - 1) \div b

\* pageNum and limitNum of a query whose page and limit are strings, or
\* "-" when absent (the destructuring defaults are the numbers 1 and 10)
PageNum(page) == MathMax(1, IF page = "-" THEN 1 ELSE ParseInt(page))
LimitNum(limit) ==
    MathMin(100, MathMax(1, IF limit = "-" THEN 10 ELSE ParseInt(limit)))

\* the query the gateway's users-list handler puts in the url: page and
\* limit are pageNum.toString() and limitNum.toString(), here the number
\* the string denotes (NaN for "NaN"); role is appended when given
PassedQuery(query) ==
    [page |-> PageNum(query.page), limit |-> LimitNum(query.limit),
     role |-> query.role]

\* GET /users of the users service for the query the gateway passed (its
\* parseInt gives back the number, or NaN for "NaN"): the body has users
\* (here the number of users on the page: slice(NaN, NaN) is empty),
\* pagination, filters; it has no total or totalPages of its own
GetUsers(db, passed) ==
    LET users == {id \in DOMAIN db :
                    passed.role = "-" \/ passed.role \in db[id].roles}
        pageNum == MathMax(1, passed.page)
        limitNum == MathMin(100, MathMax(1, passed.limit))
        totalUsers == Cardinality(users)
        startIndex == (pageNum - 1) * limitNum
        onPage == IF pageNum = NaN \/ limitNum = NaN THEN 0
                  ELSE IF startIndex >= totalUsers THEN 0
                  ELSE MathMin(limitNum, totalUsers - startIndex)
    IN RespData(200,
         [users |-> onPage, total |-> Undefined, totalPages |-> Undefined,
          pagination |-> [page |-> pageNum, limit |-> limitNum,
                          total |-> totalUsers,
                          totalPages |-> MathCeilDiv(totalUsers, limitNum)],
          filters |-> [role |-> passed.role]])

\* GET /orders of the orders service without a query: all orders (their
\* order in the list is not modelled)
GetOrders(db) == RespData(200, {db[id] : id \in DOMAIN db})

\* checkUserExists: the answer of the users service, or true when the
\* fetch fails
checkUserExists(db, userId, reachable) ==
    IF reachable THEN userId \in DOMAIN db ELSE TRUE


\* the body of POST /orders: items are <<[quantity, price], ...>>, an
\* omitted totalAmount is Undefined, an omitted status is "-"
OrderData(userId, items, totalAmount, status) ==
    [userId |-> userId, items |-> items, totalAmount |-> totalAmount,
     status |-> status]

\* a body for user userId: one item, quantity 2 at price 10, nothing else
DefaultOrder(userId) ==
    OrderData(userId, <<[quantity |-> 2, price |-> 10]>>, Undefined, "-")

\* createOrderSchema.safeParse(body).success
createOrderSchema(body) ==
    /\ body.userId > 0
    /\ Len(body.items) >= 1
    /\ \A i \in DOMAIN body.items :
         body.items[i].quantity >= 1 /\ body.items[i].price >= 0
    /\ body.totalAmount = Undefined \/ body.totalAmount >= 0

\* variant: the subtotal is the item's price, whatever its quantity
processOrderItemsByPrice(items) ==
    [i \in DOMAIN items |->
       [quantity |-> items[i].quantity, price |-> items[i].price,
        subtotal |-> items[i].price]]

\* processOrderItems: every item gets its subtotal
processOrderItems(items) ==
    [i \in DOMAIN items |->
       [quantity |-> items[i].quantity, price |-> items[i].price,
        subtotal |-> items[i].quantity * items[i].price]]

RECURSIVE SumSubtotals(_, _)
\* processedItems.reduce((sum, item) => sum + item.subtotal, 0), from the
\* i-th item on
SumSubtotals(items, i) ==
    IF i > Len(items) THEN 0
    ELSE items[i].subtotal + SumSubtotals(items, i + 1)

\* createOrderModel: the schema has filled in the default status; a
\* totalAmount that is absent or 0 is replaced by the sum of the subtotals
createOrderModel(id, orderData) ==
    LET processedItems == processOrderItems(orderData.items) IN
    [id |-> id, userId |-> orderData.userId, items |-> processedItems,
     status |-> IF orderData.status = "-" THEN "created"
                ELSE orderData.status,
     totalAmount |-> IF Falsy(orderData.totalAmount)
                       THEN SumSubtotals(processedItems, 1)
                     ELSE orderData.totalAmount]

\* an order none of whose fields is defined (an order of the service has
\* at least one item: <<>> stands for items that are absent)
NoOrder == [id |-> 0, userId |-> 0, items |-> <<>>, status |-> "-",
            totalAmount |-> Undefined]

\* the body of an answer of the orders service: { success, data }
OrderBody(success, order) == [success |-> success, data |-> order]

\* the property key an id is stored under
KeyOf(id) == CASE id = 1 -> "1" [] id = 2 -> "2" [] id = 10 -> "10"
               [] OTHER -> "?"

\* GET /orders/:orderId of the orders service: fakeOrdersDb[orderId]
GetOrder(db, s) ==
    IF \E id \in DOMAIN db : KeyOf(id) = s
      THEN RespData(200, OrderBody(TRUE,
                     db[CHOOSE id \in DOMAIN db : KeyOf(id) = s]))
    ELSE RespData(404, OrderBody(FALSE, NoOrder))

\* POST /orders of the orders service: 400 for a body the schema refuses,
\* 404 when checkUserExists says no, else 201 with the new order
PostOrders(users, nextId, body, reachable) ==
    IF ~createOrderSchema(body) THEN RespData(400, OrderBody(FALSE, NoOrder))
    ELSE IF ~checkUserExists(users, body.userId, reachable)
      THEN RespData(404, OrderBody(FALSE, NoOrder))
    ELSE RespData(201, OrderBody(TRUE, createOrderModel(nextId, body)))

\* the store after db[id] = order
Stored(db, order) ==
    [id \in DOMAIN db \cup {order.id} |->
       IF id = order.id THEN order ELSE db[id]]

\* POST /orders: the answer's status, the store and the next id after;
\* generateOrderId is called by createOrderModel, after the two checks
OrderCreate(db, users, nextId, body, reachable) ==
    LET res == PostOrders(users, nextId, body, reachable) IN
    [status |-> res.status,
     db |-> IF res.status = 201 THEN Stored(db, res.data.data) ELSE db,
     nextId |-> IF res.status = 201 THEN nextId + 1 ELSE nextId]

\* updateOrderSchema.safeParse(body).success: items, totalAmount and
\* status are optional, items may be empty
updateOrderSchema(body) ==
    /\ Has(body, "items") =>
         \A i \in DOMAIN body.items :
           body.items[i].quantity >= 1 /\ body.items[i].price >= 0
    /\ Has(body, "totalAmount") => body.totalAmount >= 0

\* updateOrderModel: { ...existingOrder, ...updateData }; when the update
\* has items (an empty array is truthy) they are processed, and the total
\* is recalculated unless the update has a totalAmount other than 0
updateOrderModel(existingOrder, updateData) ==
    LET items == IF Has(updateData, "items")
                   THEN processOrderItems(updateData.items)
                 ELSE existingOrder.items
        given == IF Has(updateData, "totalAmount") THEN updateData.totalAmount
                 ELSE Undefined
    IN [existingOrder EXCEPT
          !.items = items,
          !.status = IF Has(updateData, "status") THEN updateData.status
                     ELSE @,
          !.totalAmount = IF Has(updateData, "items") /\ Falsy(given)
                            THEN SumSubtotals(items, 1)
                          ELSE IF given # Undefined THEN given
                          ELSE @]

\* PUT /orders/:orderId with path parameter s: 404 for an unknown order,
\* 400 for a body the schema refuses, else the updated order is stored
\* under the key it had
OrderUpdate(db, nextId, s, body) ==
    IF ~\E id \in DOMAIN db : KeyOf(id) = s
      THEN [status |-> 404, db |-> db, nextId |-> nextId]
    ELSE IF ~updateOrderSchema(body)
      THEN [status |-> 400, db |-> db, nextId |-> nextId]
    ELSE LET orderId == CHOOSE id \in DOMAIN db : KeyOf(id) = s IN
         [status |-> 200,
          db |-> [db EXCEPT ![orderId] = updateOrderModel(@, body)],
          nextId |-> nextId]

\* variant: a deletion that gives the id of the newest order back
OrderDeleteGivesIdBack(db, nextId, s) ==
    IF ~\E id \in DOMAIN db : KeyOf(id) = s
      THEN [status |-> 404, db |-> db, nextId |-> nextId]
    ELSE LET orderId == CHOOSE id \in DOMAIN db : KeyOf(id) = s IN
         [status |-> 200,
          db |-> [id \in DOMAIN db \ {orderId} |-> db[id]],
          nextId |-> IF orderId = nextId - 1 THEN orderId ELSE nextId]

\* DELETE /orders/:orderId with path parameter s: 404 for an unknown
\* order, else delete fakeOrdersDb[orderId]; currentId is not touched
OrderDelete(db, nextId, s) ==
    IF ~\E id \in DOMAIN db : KeyOf(id) = s
      THEN [status |-> 404, db |-> db, nextId |-> nextId]
    ELSE LET orderId == CHOOSE id \in DOMAIN db : KeyOf(id) = s IN
         [status |-> 200,
          db |-> [id \in DOMAIN db \ {orderId} |-> db[id]],
          nextId |-> nextId]

(***************************************************************************)
(* Domain events (domain-events.js)                                        *)
(***************************************************************************)
\* DomainEvent: its type, data and aggregateId
DomainEvent(type, data, aggregateId) ==
    [type |-> type, data |-> data, aggregateId |-> aggregateId]

\* the data of an order.created event
CreatedData(order) ==
    [orderId |-> order.id, userId |-> order.userId, items |-> order.items,
     totalAmount |-> order.totalAmount, status |-> order.status]

\* variant: an order.created event whose aggregate is the order's user
OrderCreatedEventOfUser(order) ==
    DomainEvent("order.created", CreatedData(order), order.userId)

\* OrderCreatedEvent: super(type, data, order.id)
OrderCreatedEvent(order) ==
    DomainEvent("order.created", CreatedData(order), order.id)

\* OrderStatusUpdatedEvent: super(type, data, orderId); of its data only
\* the orderId is modelled
OrderStatusUpdatedEvent(orderId) ==
    DomainEvent("order.status.updated", [orderId |-> orderId], orderId)

\* OrderCancelledEvent: super(type, data, orderId); of its data only the
\* orderId is modelled
OrderCancelledEvent(orderId) ==
    DomainEvent("order.cancelled", [orderId |-> orderId], orderId)

\* how a call of eventPublisher.publish ends, as its caller sees it
PublishOutcomes == {"ok", "raised"}

EventTypes == {"order.created", "order.status.updated", "order.cancelled"}

\* what a subscribed handler does when it is called
HandlerBehaviours == {"returns", "throws", "rejects"}

\* what fails during a call of publish: nothing, the logger.info call at
\* its start, or the delivery inside publishToMessageBroker
PublishFailures == {"none", "log", "broker"}

\* no publish yet
NoPublish == [type |-> "-", notified |-> FALSE, invoked |-> <<>>,
              brokerCalled |-> FALSE, outcome |-> "-"]

\* new EventPublisher(logger)
\* (connected: connectMessageBroker has been called, kept for the properties)
NewPublisher ==
    [subscribers |-> [ty \in EventTypes |-> <<>>], messageBroker |-> "null",
     isMessageBrokerEnabled |-> FALSE, last |-> NoPublish,
     connected |-> FALSE]

\* subscribe(eventType, handler)
subscribe(p, ty, h) == [p EXCEPT !.subscribers[ty] = Append(@, h)]

\* variant: a connectMessageBroker that sets up and enables a broker
connectMessageBrokerEnables(p) ==
    [p EXCEPT !.messageBroker = "broker", !.isMessageBrokerEnabled = TRUE,
              !.connected = TRUE]

\* connectMessageBroker(brokerConfig): a placeholder that leaves the broker
\* disabled
connectMessageBroker(p) ==
    [p EXCEPT !.isMessageBrokerEnabled = FALSE, !.connected = TRUE]

\* an entry of the record of a notification: the handler subscribed as
\* the index-th under key starts, or ends by returning or by an error that
\* the loop's catch logs
Started(key, index) ==
    [key |-> key, index |-> index, step |-> "start", outcome |-> "-"]
Ended(key, index, behaviour) ==
    [key |-> key, index |-> index, step |-> "end",
     outcome |-> IF behaviour = "returns" THEN "returned" ELSE "caught"]

RECURSIVE NotifyUntilError(_, _, _, _), notifyLocalSubscribers(_, _, _, _)

\* variant: a loop that an error of a handler ends
NotifyUntilError(subscribers, ty, i, log) ==
    IF i > Len(subscribers[ty]) THEN log
    ELSE IF subscribers[ty][i] # "returns"
      THEN log \o <<Started(ty, i), Ended(ty, i, subscribers[ty][i])>>
    ELSE NotifyUntilError(subscribers, ty, i + 1,
           log \o <<Started(ty, i), Ended(ty, i, subscribers[ty][i])>>)

\* notifyLocalSubscribers(event) from the i-th handler on: the handlers
\* stored under the event's type are awaited one after the other, each
\* inside a try of its own
notifyLocalSubscribers(subscribers, ty, i, log) ==
    IF i > Len(subscribers[ty]) THEN log
    ELSE notifyLocalSubscribers(subscribers, ty, i + 1,
           log \o <<Started(ty, i), Ended(ty, i, subscribers[ty][i])>>)

\* publish(event) for an event of type ty: the handlers of the type are
\* called in turn, each one's error caught and logged; the broker path is
\* taken when a broker is set and enabled; an error of the logger.info call
\* or of publishToMessageBroker (which rethrows what it catches) reaches
\* publish's catch, which logs it and throws it again.
publish(p, ty, fail) ==
    IF fail = "log"
      THEN [type |-> ty, notified |-> FALSE, invoked |-> <<>>,
            brokerCalled |-> FALSE, outcome |-> "raised"]
    ELSE LET brokerCalled ==
               p.isMessageBrokerEnabled /\ p.messageBroker # "null"
         IN [type |-> ty, notified |-> TRUE,
             invoked |-> notifyLocalSubscribers(p.subscribers, ty, 1, <<>>),
             brokerCalled |-> brokerCalled,
             outcome |-> IF brokerCalled /\ fail = "broker" THEN "raised"
                         ELSE "ok"]

(***************************************************************************)
(* State                                                                   *)
(***************************************************************************)
VARIABLES
    now,            \* the clock, in ticks
    circuit,        \* usersCircuit / ordersCircuit
    generalHits,    \* generalLimiter's store: hits per client address
    authHits,       \* authLimiter's store: hits per client address
    fakeUsersDb,    \* the users service's store
    currentId,      \* the users service's next id
    req,            \* the requests in progress, one per slot
    admitted,       \* per client: requests generalLimiter passed to next()
    attempts,       \* per client: requests that reached authLimiter
    guardRun,       \* a role guard applied to a request on its own
    fakeOrdersDb,   \* the orders service's store
    orderCurrentId, \* the orders service's next id (its currentId)
    publisher       \* an EventPublisher and the outcome of its last publish

vars == <<now, circuit, generalHits, authHits, fakeUsersDb, currentId, req,
          admitted, attempts, guardRun, fakeOrdersDb, orderCurrentId,
          publisher>>

\* a handler's call of circuit.fire: firedIn records the breaker's state
\* when the call was fired
NoCall == [st |-> "none", sent |-> FALSE, startedAt |-> 0, firedIn |-> "-",
           result |-> NoResult]

\* the part of a response body the properties read: the user and the
\* orders of the aggregated read
NoData == [user |-> 0, orders |-> {}]

\* call2: the second call of a handler that makes two; events: the events
\* the handler has handed to eventPublisher.publish; published: how that
\* call of publish ended
\* pc: "idle"      the slot is free
\*     "aggregating" the handler of the aggregated read awaits both calls
\*     "reading"   the handler of PATCH status awaits the order's read
\*     "ordering"  the handler of an order route awaits its changing call
\*     "waiting"   the handler awaits circuit.fire
\*     "responded" the response is sent, its 'finish' event is pending
\*     "done"      the response is finished
IdleReq == [pc |-> "idle", client |-> "-", route |-> "-",
            cred |-> Cred("absent", FALSE, {}, 0), body |-> NoBody,
            user |-> NoUser, call |-> NoCall, status |-> 0, resBody |-> "-",
            hooked |-> FALSE, ord |-> 0,
            call2 |-> NoCall, resData |-> NoData, events |-> <<>>,
            published |-> "-", late |-> FALSE]

NoGuardRun == [ran |-> FALSE, allowed |-> {}, user |-> NoUser,
               status |-> 0, body |-> "-"]

Init ==
    /\ now = 0
    /\ circuit = [u \in Upstreams |-> NewCircuit]
    /\ generalHits = [c \in Clients |-> 0]
    /\ authHits = [c \in Clients |-> 0]
    /\ fakeUsersDb = <<>>
    /\ currentId = 1
    /\ req = [r \in Slots |-> IdleReq]
    /\ admitted = [c \in Clients |-> 0]
    /\ attempts = [c \in Clients |-> 0]
    /\ guardRun = NoGuardRun
    /\ fakeOrdersDb = <<>>
    /\ orderCurrentId = 1
    /\ publisher = NewPublisher

(***************************************************************************)
(* Rate limiters (express-rate-limit)                                      *)
(***************************************************************************)
\* express-rate-limit's window, 15 * 60 * 1000 ms, in ticks
WindowTicks == 900

\* variant: one counter shared by all client addresses
IncrementAll(store, key) == [k \in DOMAIN store |-> store[k] + 1]

\* store.increment(key): the store keeps one count per key, the key being
\* the client address (req.ip)
Increment(store, key) == [store EXCEPT ![key] = @ + 1]

\* variant: a window timer that leaves the counts as they are
ResetAllKept(store) == store

\* store.resetAll(): the store's timer, every windowMs
ResetAll(store) == [k \in DOMAIN store |-> 0]

\* variant: a limiter that lets one more request through
OverLimitByOne(totalHits, max) == totalHits > max + 1

\* the limiter rejects when the hits after the increment exceed max
OverLimit(totalHits, max) == totalHits > max

\* variant: client errors count as successful requests
RequestWasSuccessfulBelow500(status) == status < 500

\* requestWasSuccessful of skipSuccessfulRequests
RequestWasSuccessful(status) == status < 400

\* pc after res.json: authLimiter's 'finish' hook is pending when it ran
AfterSend(hooked) == IF hooked THEN "responded" ELSE "done"

(***************************************************************************)
(* Guards and handlers                                                     *)
(***************************************************************************)
\* variant: the role guard runs before the auth guard, on a request whose
\* claims are not yet attached
GuardsRoleFirst(rt, cred, t) ==
    LET g == IF RoleGuarded(rt) THEN requireRoles(RouteTable[rt].roles, NoUser)
             ELSE [status |-> 0, body |-> "next"]
        a == IF g.status = 0 /\ RouteTable[rt].auth
               THEN authenticateJWT(cred, t)
             ELSE [status |-> g.status, body |-> g.body, user |-> NoUser]
    IN [status |-> a.status, body |-> a.body, user |-> a.user]

\* the outcome of the route's guards: authenticateJWT, then requireRoles
Guards(rt, cred, t) ==
    LET a == IF RouteTable[rt].auth THEN authenticateJWT(cred, t)
             ELSE [status |-> 0, body |-> "next", user |-> NoUser]
        g == IF a.status = 0 /\ RoleGuarded(rt)
               THEN requireRoles(RouteTable[rt].roles, a.user)
             ELSE [status |-> a.status, body |-> a.body]
    IN [status |-> g.status, body |-> g.body, user |-> a.user]

\* circuit.fire(url, options) at time t: the call it starts; a call the
\* breaker does not admit resolves to the fallback without reaching axios
FireCall(b, t) ==
    IF CircuitAdmits(b)
      THEN [st |-> "inflight", sent |-> TRUE, startedAt |-> t,
            firedIn |-> b.state, result |-> NoResult]
    ELSE [st |-> "resolved", sent |-> FALSE, startedAt |-> 0,
          firedIn |-> b.state, result |-> Fallback]

\* variant: a send that answers 500 for every answer that is not a success
SendResultOfSuccess(result) ==
    IF result.kind = "response" /\ result.status < 400
      THEN [status |-> result.status, body |-> "upstream"]
    ELSE [status |-> 500, body |-> "internalError"]

\* res.status(result.status).json(result.data) inside the handler's try:
\* the fallback value has neither status nor data, res.status(undefined)
\* makes the send throw, and the catch answers 500.
SendResult(result) ==
    IF result.kind = "response"
      THEN [status |-> result.status, body |-> "upstream"]
    ELSE [status |-> 500, body |-> "internalError"]

\* GET /users: a 200 answer with a body is wrapped in the pagination
\* envelope, everything else is sent like SendResult
SendList(result) ==
    IF result.kind = "response" /\ result.status = 200
      THEN [status |-> 200, body |-> "listEnvelope"]
    ELSE SendResult(result)

\* the request once its handler has sent the response for a resolved call
Sent(q) ==
    LET out == IF RouteTable[q.route].kind = "list"
                 THEN SendList(q.call.result)
               ELSE SendResult(q.call.result) IN
    [q EXCEPT !.pc = AfterSend(q.hooked), !.status = out.status,
              !.resBody = out.body]

\* variant: an aggregated read that looks at the orders result before the
\* users result's status
DetailsOutcomeOrdersFirst(userResult, ordersResult, userId) ==
    IF ordersResult.kind # "response"
      THEN [status |-> 500, body |-> "internalError", data |-> NoData]
    ELSE IF userResult.kind = "response" /\ userResult.status = 404
      THEN [status |-> 404, body |-> "userNotFound", data |-> NoData]
    ELSE [status |-> 200, body |-> "detailsEnvelope",
          data |-> [user |-> IF userResult.kind = "response"
                               THEN userResult.data ELSE 0,
                    orders |-> {o \in ordersResult.data :
                                  LooseEquals(o.userId, userId)}]]

\* GET /users/:userId/details once Promise.all has both results: 404 when
\* the users result's status is 404; otherwise the orders whose userId ==
\* the path parameter are filtered out of ordersResult.data.data, which
\* throws on the fallback value (it has no data) and the catch answers 500;
\* otherwise 200 with the users result's body and the filtered orders.
DetailsOutcome(userResult, ordersResult, userId) ==
    IF userResult.kind = "response" /\ userResult.status = 404
      THEN [status |-> 404, body |-> "userNotFound", data |-> NoData]
    ELSE IF ordersResult.kind # "response"
      THEN [status |-> 500, body |-> "internalError", data |-> NoData]
    ELSE [status |-> 200, body |-> "detailsEnvelope",
          data |-> [user |-> IF userResult.kind = "response"
                               THEN userResult.data ELSE 0,
                    orders |-> {o \in ordersResult.data :
                                  LooseEquals(o.userId, userId)}]]

\* the request once the handler of the aggregated read has sent its response
DetailsSent(q) ==
    LET out == DetailsOutcome(q.call.result, q.call2.result, q.body.userId) IN
    [q EXCEPT !.pc = AfterSend(q.hooked), !.status = out.status,
              !.resBody = out.body, !.resData = out.data]

\* the kinds of handler that publish a domain event
EventKinds == {"create", "status", "cancel"}

\* the call of request q that changes the order
ChangeCall(q) == IF RouteTable[q.route].kind = "status" THEN q.call2 ELSE q.call

\* variant: an event for every answer of the upstream
EventDueAlways(kind, result) == result.kind = "response"

\* the handler's test before it builds the event
EventDue(kind, result) ==
    /\ result.kind = "response"
    /\ result.status = (IF kind = "create" THEN 201 ELSE 200)
    /\ result.data.success

\* the object POST /orders builds its event from: orderData is the data
\* of the upstream's answer; userId is req.user.id, the id claim of the
\* caller's token; items and status fall back to the request's items and
\* to 'pending' when orderData has none
CreatedOrderOf(result, q) ==
    LET orderData == result.data.data IN
    [id |-> orderData.id, userId |-> q.cred.id,
     items |-> IF orderData.items = <<>> THEN q.body.items
               ELSE orderData.items,
     totalAmount |-> orderData.totalAmount,
     status |-> IF orderData.status = "-" THEN "pending"
                ELSE orderData.status]

\* the event the handler of request q builds: from the order in the
\* upstream's answer for a creation, from the path's orderId for the two
\* others
EventOf(kind, result, q) ==
    IF kind = "create" THEN OrderCreatedEvent(CreatedOrderOf(result, q))
    ELSE IF kind = "status" THEN OrderStatusUpdatedEvent(q.body.orderId)
    ELSE OrderCancelledEvent(q.body.orderId)

\* variant: a handler whose response is 500 when publish raises
OrderOutcomeUnguarded(kind, result, q, pub) ==
    LET due == EventDue(kind, result)
        out == IF due /\ pub = "raised"
                 THEN [status |-> 500, body |-> "internalError"]
               ELSE SendResult(result)
    IN [events |-> IF due THEN <<EventOf(kind, result, q)>> ELSE <<>>,
        published |-> IF due THEN pub ELSE "-",
        status |-> out.status, body |-> out.body]

\* An order handler once its changing call has resolved to result: when
\* the test passes it builds the event and awaits publish inside a try of
\* its own, whose catch logs; then it sends the upstream's result (the 500
\* of the outer catch for the fallback).
OrderOutcome(kind, result, q, pub) ==
    LET due == EventDue(kind, result)
        out == SendResult(result)
    IN [events |-> IF due THEN <<EventOf(kind, result, q)>> ELSE <<>>,
        published |-> IF due THEN pub ELSE "-",
        status |-> out.status, body |-> out.body]

\* the request once its order handler has sent the response
OrderSent(q, pub) ==
    LET kind == RouteTable[q.route].kind
        out == OrderOutcome(kind, ChangeCall(q).result, q, pub)
    IN [q EXCEPT !.pc = AfterSend(q.hooked), !.status = out.status,
                 !.resBody = out.body, !.events = out.events,
                 !.published = out.published]

\* PATCH status after its read: the handler fires the orders breaker for
\* the change; on the fallback it answers at once
SecondFire(q, cs, t) ==
    LET q2 == [q EXCEPT !.pc = "ordering",
                        !.call2 = FireCall(cs["orders"], t)]
    IN [q |-> IF q2.call2.st = "resolved" THEN OrderSent(q2, "ok") ELSE q2,
        circuit |-> [cs EXCEPT !["orders"] = CircuitFire(@)]]

\* The handler of request q1, admitted by the guards, runs to its first
\* await against the breakers cs at time t: the request and the breakers
\* after it. The aggregated read fires the users breaker, then the orders
\* breaker, and awaits both; PATCH status fires the orders breaker for the
\* order's read; the other handlers fire their upstream's breaker.
StartHandler(q1, cs, t) ==
    LET route == RouteTable[q1.route] IN
    IF route.kind = "details"
      THEN LET q2 == [q1 EXCEPT !.pc = "aggregating",
                                !.call = FireCall(cs["users"], t),
                                !.call2 = FireCall(cs["orders"], t)]
           IN [q |-> IF q2.call.st = "resolved" /\ q2.call2.st = "resolved"
                       THEN DetailsSent(q2) ELSE q2,
               circuit |-> [cs EXCEPT !["users"] = CircuitFire(@),
                                      !["orders"] = CircuitFire(@)]]
    ELSE IF route.kind = "status"
      THEN LET q2 == [q1 EXCEPT !.pc = "reading",
                                !.call = FireCall(cs["orders"], t)]
               cs2 == [cs EXCEPT !["orders"] = CircuitFire(@)]
           IN IF q2.call.st = "resolved" THEN SecondFire(q2, cs2, t)
              ELSE [q |-> q2, circuit |-> cs2]
    ELSE IF route.kind \in EventKinds
      THEN LET q2 == [q1 EXCEPT !.pc = "ordering",
                                !.call = FireCall(cs["orders"], t)]
           IN [q |-> IF q2.call.st = "resolved" THEN OrderSent(q2, "ok")
                     ELSE q2,
               circuit |-> [cs EXCEPT !["orders"] = CircuitFire(@)]]
    ELSE LET q2 == [q1 EXCEPT !.pc = "waiting",
                              !.call = FireCall(cs[route.up], t)]
         IN [q |-> IF q2.call.st = "resolved" THEN Sent(q2) ELSE q2,
             circuit |-> [cs EXCEPT ![route.up] = CircuitFire(@)]]

\* The body of GET /health: for each breaker, circuit.status (opossum's
\* Status object, the holder of the rolling window) and circuit.stats (the
\* window's sums).  The getters of the breaker's state (opened, halfOpen,
\* closed) are not read.
HealthReport(cs) ==
    [u \in Upstreams |-> [status |-> cs[u].window, stats |-> Stats(cs[u])]]

\* A request arrives and runs, in one turn of the event loop, through
\* generalLimiter, the route's authLimiter, authenticateJWT, requireRoles
\* and the handler up to its first await: a limiter's 429, a guard's
\* rejection, the local answer of /health and /status, or the fire of the
\* upstream's breaker (whose fallback, when the breaker does not admit the
\* call, the handler sends at once): see StartHandler.
Arrive(r, c, rt, cred, body) ==
    /\ req[r].pc = "idle"
    /\ \A q \in DOMAIN req : q < r => req[q].pc # "idle"
    /\ LET route == RouteTable[rt]
           gh == generalHits[c] + 1
           throttled == OverLimit(gh, GeneralMax)
           limited == ~throttled /\ route.authLimited
           ah == IF limited THEN authHits[c] + 1 ELSE authHits[c]
           q0 == [IdleReq EXCEPT !.client = c, !.route = rt, !.cred = cred,
                                 !.body = body, !.hooked = limited,
                                 !.ord = IF limited THEN attempts[c] + 1
                                         ELSE 0]
           g == Guards(rt, cred, now)
           fires == /\ ~throttled
                    /\ ~(limited /\ OverLimit(ah, AuthMax))
                    /\ g.status = 0
                    /\ route.kind # "local"
       IN
         /\ generalHits' = Increment(generalHits, c)
         /\ authHits' = IF limited THEN Increment(authHits, c) ELSE authHits
         /\ admitted' = IF throttled THEN admitted
                        ELSE [admitted EXCEPT ![c] = @ + 1]
         /\ attempts' = IF limited THEN [attempts EXCEPT ![c] = @ + 1]
                        ELSE attempts
         /\ circuit' = IF fires
                         THEN StartHandler([q0 EXCEPT !.user = g.user],
                                           circuit, now).circuit
                       ELSE circuit
         /\ req' = [req EXCEPT ![r] =
               IF throttled
                 THEN [q0 EXCEPT !.pc = "done", !.status = 429,
                                 !.resBody = "generalLimit"]
               ELSE IF limited /\ OverLimit(ah, AuthMax)
                 THEN [q0 EXCEPT !.pc = "responded", !.status = 429,
                                 !.resBody = "authLimit"]
               ELSE IF g.status # 0
                 THEN [q0 EXCEPT !.pc = AfterSend(limited), !.user = g.user,
                                 !.status = g.status, !.resBody = g.body]
               ELSE IF route.kind = "local"
                 THEN [q0 EXCEPT !.pc = AfterSend(limited), !.user = g.user,
                                 !.status = 200, !.resBody = "gateway",
                                 !.resData = IF rt = "health"
                                               THEN HealthReport(circuit)
                                             ELSE @]
               ELSE StartHandler([q0 EXCEPT !.user = g.user], circuit, now).q]
    /\ UNCHANGED <<now, fakeUsersDb, currentId, guardRun,
                   fakeOrdersDb, orderCurrentId, publisher>>

(***************************************************************************)
(* The upstream's answer, transport failures and timeouts                  *)
(***************************************************************************)
\* statuses an upstream resource route may answer with, the gateway
\* treating the route as a black box
BlackBoxStatuses == {200, 404, 500}

\* the status the upstream answers request r with
UpstreamStatuses(r) ==
    IF req[r].route = "login" THEN {LoginStatus(fakeUsersDb, req[r].body)}
    ELSE IF req[r].route = "register"
      THEN {RegisterStatus(fakeUsersDb, req[r].body)}
    ELSE BlackBoxStatuses

\* the call of request q resolved to result res
Resolved(q, res) ==
    [q EXCEPT !.call = [@ EXCEPT !.st = "resolved", !.startedAt = 0,
                                 !.result = res]]

\* The upstream handles the request and its response reaches the gateway:
\* axios resolves whatever the status (validateStatus: () => true), the
\* breaker records a success, the handler resumes and sends the response.
UpstreamRespond(r, st) ==
    /\ req[r].pc = "waiting"
    /\ req[r].call.st = "inflight"
    /\ st \in UpstreamStatuses(r)
    /\ LET u == RouteTable[req[r].route].up IN
         circuit' = [circuit EXCEPT ![u] = CircuitSuccess(@)]
    /\ req' = [req EXCEPT ![r] = Sent(Resolved(@, Response(st)))]
    /\ IF req[r].route = "register" /\ st = 201
         THEN /\ fakeUsersDb' =
                   [id \in DOMAIN fakeUsersDb \cup {currentId} |->
                      IF id = currentId
                        THEN createUserModel(currentId,
                                             RegisterData(req[r].body))
                      ELSE fakeUsersDb[id]]
              /\ currentId' = currentId + 1
         ELSE UNCHANGED <<fakeUsersDb, currentId>>
    /\ UNCHANGED <<now, generalHits, authHits, admitted, attempts, guardRun,
                   fakeOrdersDb, orderCurrentId, publisher>>

\* variant: a connection failure that every breaker records
UpstreamFailShared(r) ==
    /\ req[r].pc = "waiting"
    /\ req[r].call.st = "inflight"
    /\ circuit' = [u \in Upstreams |-> CircuitFail(circuit[u], now)]
    /\ req' = [req EXCEPT ![r] = Sent(Resolved(@, Fallback))]
    /\ UNCHANGED <<now, generalHits, authHits, fakeUsersDb, currentId,
                   admitted, attempts, guardRun,
                   fakeOrdersDb, orderCurrentId, publisher>>

\* The connection to the upstream fails (refused, reset, DNS): axios
\* rejects, the breaker records a failure and resolves to the fallback,
\* the handler resumes and sends the response.
UpstreamFail(r) ==
    /\ req[r].pc = "waiting"
    /\ req[r].call.st = "inflight"
    /\ LET u == RouteTable[req[r].route].up IN
         circuit' = [circuit EXCEPT ![u] = CircuitFail(@, now)]
    /\ req' = [req EXCEPT ![r] = Sent(Resolved(@, Fallback))]
    /\ UNCHANGED <<now, generalHits, authHits, fakeUsersDb, currentId,
                   admitted, attempts, guardRun,
                   fakeOrdersDb, orderCurrentId, publisher>>

\* The call's timeout timer expires before the upstream answered: the
\* breaker records a failure and resolves to the fallback, the handler
\* resumes and sends the response; the upstream's late answer is ignored.
CallTimeout(r) ==
    /\ req[r].pc = "waiting"
    /\ req[r].call.st = "inflight"
    /\ now >= req[r].call.startedAt + Timeout
    /\ LET u == RouteTable[req[r].route].up IN
         circuit' = [circuit EXCEPT ![u] = CircuitFail(@, now)]
    /\ req' = [req EXCEPT ![r] = Sent(Resolved(@, Fallback))]
    /\ UNCHANGED <<now, generalHits, authHits, fakeUsersDb, currentId,
                   admitted, attempts, guardRun,
                   fakeOrdersDb, orderCurrentId, publisher>>

\* the calls in flight on upstream u
InFlight(u) ==
    {r \in Slots : /\ req[r].pc = "waiting" /\ req[r].call.st = "inflight"
                   /\ RouteTable[req[r].route].up = u}

\* The breaker's reset timer expires: the breaker becomes half-open.
\* Timers of one duration expire in the order they were armed: the timeout
\* of a call in flight when the breaker opened expires before the reset
\* timer armed by that opening (timeout = resetTimeout = 3000 ms).
ResetTimerFires(u) ==
    /\ circuit[u].resetTimer # NoTimer
    /\ now >= circuit[u].resetTimer
    /\ \A r \in InFlight(u) : now < req[r].call.startedAt + Timeout
    /\ circuit' = [circuit EXCEPT ![u] = CircuitHalfOpen(@)]
    /\ UNCHANGED <<now, generalHits, authHits, fakeUsersDb, currentId, req,
                   admitted, attempts, guardRun,
                   fakeOrdersDb, orderCurrentId, publisher>>

\* The response's 'finish' event: authLimiter's hook gives the hit back
\* when the request was successful (skipSuccessfulRequests).
Finish(r) ==
    /\ req[r].pc = "responded"
    /\ req' = [req EXCEPT ![r].pc = "done"]
    /\ authHits' =
         IF req[r].hooked /\ RequestWasSuccessful(req[r].status)
           THEN [authHits EXCEPT ![req[r].client] = Max2(0, @ - 1)]
         ELSE authHits
    /\ UNCHANGED <<now, circuit, generalHits, fakeUsersDb, currentId,
                   admitted, attempts, guardRun,
                   fakeOrdersDb, orderCurrentId, publisher>>

\* The slot is free for the next request.
Recycle(r) ==
    /\ req[r].pc = "done"
    /\ req' = [req EXCEPT ![r] = IdleReq]
    /\ UNCHANGED <<now, circuit, generalHits, authHits, fakeUsersDb, currentId,
                   admitted, attempts, guardRun,
                   fakeOrdersDb, orderCurrentId, publisher>>

\* A timer is due at the current tick
TimerDue ==
    \/ \E u \in Upstreams :
         circuit[u].resetTimer # NoTimer /\ now >= circuit[u].resetTimer
    \/ \E r \in Slots :
         /\ req[r].pc = "waiting" /\ req[r].call.st = "inflight"
         /\ now >= req[r].call.startedAt + Timeout

\* 1000 ms pass: every breaker's window rotates by one bucket.
Tick ==
    /\ now < MaxTime
    /\ ~TimerDue
    /\ now' = now + 1
    /\ circuit' = [u \in Upstreams |-> RotateWindow(circuit[u])]
    /\ UNCHANGED <<generalHits, authHits, fakeUsersDb, currentId, req,
                   admitted, attempts, guardRun,
                   fakeOrdersDb, orderCurrentId, publisher>>

(***************************************************************************)
(* Specification of the breakers: requests to routes of both upstreams,    *)
(* upstreams that answer, fail or hang, and the clock.                     *)
(***************************************************************************)
\* generateJwtForUser: expiresIn '1h', in seconds; a token issued at time 0
\* expires at ExpiresIn, one issued an hour before expires at 0
ExpiresIn == 3600
AdminCred == Cred("signed", TRUE, {"Admin"}, ExpiresIn)
BreakerRoutes == {"usersStatus", "ordersStatus"}
BreakerCreds == {Cred("absent", FALSE, {}, 0)}

BreakerTraffic ==
    \E r \in Slots, rt \in BreakerRoutes, cred \in BreakerCreds :
      generalHits["ip1"] < MaxCalls /\ Arrive(r, "ip1", rt, cred, NoBody)

Next ==
    \/ BreakerTraffic
    \/ \E r \in Slots, st \in BlackBoxStatuses : UpstreamRespond(r, st)
    \/ \E r \in Slots : UpstreamFail(r)
    \/ \E r \in Slots : CallTimeout(r)
    \/ \E r \in Slots : Recycle(r)
    \/ \E u \in Upstreams : ResetTimerFires(u)
    \/ Tick

Spec == Init /\ [][Next]_vars

\* the breakers' specification with requests to GET /health among the
\* traffic
HealthTraffic ==
    \E r \in Slots :
      /\ generalHits["ip1"] < MaxCalls
      /\ Arrive(r, "ip1", "health", Cred("absent", FALSE, {}, 0), NoBody)

NextHealth ==
    \/ Next
    \/ HealthTraffic

SpecHealth == Init /\ [][NextHealth]_vars

(***************************************************************************)
(* Specification of the guards: one request at a time on every route,     *)
(* with every kind of credential, against upstreams that answer or fail;   *)
(* the                                                                     *)
(* clients have already used all but NearLimit of their general budget on  *)
(* requests the gateway answered itself.                                   *)
(***************************************************************************)
NearLimit == 2       \* requests left in a client's general budget

CredRoleSets == {{}, {"Customer"}, {"Engineer"}, {"Manager"}, {"Admin"},
                 {"Customer", "Manager"}}
GuardCreds ==
    {Cred("absent", FALSE, {}, 0), Cred("basic", FALSE, {}, 0),
     Cred("empty", FALSE, {}, 0), Cred("badsig", TRUE, {"Admin"}, ExpiresIn),
     Cred("signed", FALSE, {}, ExpiresIn)}
    \cup {Cred("signed", TRUE, rs, e) : rs \in CredRoleSets, e \in {0, ExpiresIn}}

GuardBodies(rt) ==
    IF rt = "login" THEN {[email |-> "a@x", password |-> "pw", name |-> "-"]}
    ELSE IF rt = "register"
      THEN {[email |-> "a@x", password |-> "pw", name |-> "n"]}
    ELSE IF RouteTable[rt].kind = "details" THEN {[userId |-> "1"]}
    ELSE IF RouteTable[rt].kind = "create"
      THEN {DefaultOrder(1)}
    ELSE IF RouteTable[rt].kind \in {"status", "cancel"}
      THEN {[orderId |-> "1"]}
    ELSE {NoBody}

InitGuards ==
    /\ now = 0
    /\ circuit = [u \in Upstreams |-> NewCircuit]
    /\ generalHits = [c \in Clients |-> GeneralMax - NearLimit]
    /\ authHits = [c \in Clients |-> 0]
    /\ fakeUsersDb = <<>>
    /\ currentId = 1
    /\ req = [r \in Slots |-> IdleReq]
    /\ admitted = [c \in Clients |-> GeneralMax - NearLimit]
    /\ attempts = [c \in Clients |-> 0]
    /\ guardRun = NoGuardRun
    /\ fakeOrdersDb = <<>>
    /\ orderCurrentId = 1
    /\ publisher = NewPublisher

GuardTraffic ==
    \E c \in {"ip1"}, rt \in RouteIds, cred \in GuardCreds :
      \E body \in GuardBodies(rt) :
        /\ generalHits[c] < GeneralMax + MaxOver
        /\ Arrive(1, c, rt, cred, body)


(***************************************************************************)
(* Specification of the general limiter: from the start of the gateway,    *)
(* one client sends requests until its budget is exhausted, another sends  *)
(* a few.                                                                  *)
(***************************************************************************)
LimiterTraffic ==
    \E c \in Clients, rt \in {"status", "getUser"},
       cred \in {Cred("absent", FALSE, {}, 0), AdminCred} :
      /\ generalHits[c] < (IF c = "ip1" THEN GeneralMax + MaxOver ELSE MaxOver)
      /\ Arrive(1, c, rt, cred, NoBody)

NextLimiter ==
    \/ LimiterTraffic
    \/ \E st \in BlackBoxStatuses : UpstreamRespond(1, st)
    \/ Recycle(1)

SpecLimiter == Init /\ [][NextLimiter]_vars

(***************************************************************************)
(* Specification of the login scenario: from the start of the gateway,     *)
(* client ip1 sends login attempts with a wrong password, client ip2       *)
(* registers the account and logs in; the users upstream answers, or the   *)
(* connection to it fails.                                                 *)
(***************************************************************************)
Guesser == "ip1"
WrongLogins == [email : Emails, password : {"other"}, name : {"-"}]
OwnerLogins == [email : Emails, password : {"pw"}, name : {"-"}]
OwnerRegisters == [email : Emails, password : {"pw"}, name : {"n"}]

GuesserTraffic ==
    \E r \in Slots, body \in WrongLogins :
      /\ generalHits[Guesser] < AuthMax + MaxOver
      /\ Arrive(r, Guesser, "login", Cred("absent", FALSE, {}, 0), body)

OwnerTraffic ==
    \E r \in Slots :
      /\ generalHits["ip2"] < MaxOver
      /\ \/ \E body \in OwnerLogins :
              Arrive(r, "ip2", "login", Cred("absent", FALSE, {}, 0), body)
         \/ \E body \in OwnerRegisters :
              Arrive(r, "ip2", "register", Cred("absent", FALSE, {}, 0), body)

NextLogin ==
    \/ GuesserTraffic
    \/ OwnerTraffic
    \/ \E r \in Slots, st \in {200, 201, 400, 401, 409} : UpstreamRespond(r, st)
    \/ \E r \in Slots : UpstreamFail(r)
    \/ \E r \in Slots : Finish(r)
    \/ \E r \in Slots : Recycle(r)

SpecLogin == Init /\ [][NextLogin]_vars

(***************************************************************************)
(* Specification of the role guard on its own: requireRoles applied to a   *)
(* request with or without claims.                                         *)
(***************************************************************************)
AllowedRoleSets == SUBSET ROLES \ {{}}
GuardUsers ==
    {NoUser, [present |-> TRUE, hasRoles |-> FALSE, roles |-> {}]}
    \cup {[present |-> TRUE, hasRoles |-> TRUE, roles |-> rs] : rs \in SUBSET ROLES}

ApplyRequireRoles(allowed, user) ==
    /\ LET out == requireRoles(allowed, user) IN
         guardRun' = [ran |-> TRUE, allowed |-> allowed, user |-> user,
                      status |-> out.status, body |-> out.body]
    /\ UNCHANGED <<now, circuit, generalHits, authHits, fakeUsersDb, currentId,
                   req, admitted, attempts, fakeOrdersDb, orderCurrentId, publisher>>

NextRoleGuard ==
    \E allowed \in AllowedRoleSets, user \in GuardUsers :
      ApplyRequireRoles(allowed, user)

SpecRoleGuard == Init /\ [][NextRoleGuard]_vars

(***************************************************************************)
(* Specification of the limiters' windows: client ip1 has used all but     *)
(* AuthMax + 1 requests of its general budget, client ip2 none; both send  *)
(* wrong-password logins and requests the gateway answers itself; the      *)
(* window of the limiters elapses.                                         *)
(***************************************************************************)
MaxWindows == 2      \* windows that elapse

\* The limiters' windows elapse, windowMs after they began: each store's
\* timer resets its counts.  Both limiters are created together with the
\* same windowMs, so their timers run in one timer phase.  Within so long
\* a time every call in flight has timed out and every bucket of the
\* breakers' windows has rotated out.
WindowElapses ==
    /\ now < MaxWindows * WindowTicks
    /\ \A r \in DOMAIN req : req[r].pc # "waiting"
    /\ \A u \in Upstreams : circuit[u].resetTimer = NoTimer
    /\ now' = ((now \div WindowTicks) + 1) * WindowTicks
    /\ circuit' = [u \in Upstreams |-> [circuit[u] EXCEPT !.window = EmptyWindow]]
    /\ generalHits' = ResetAll(generalHits)
    /\ authHits' = ResetAll(authHits)
    /\ admitted' = [c \in Clients |-> 0]
    /\ attempts' = [c \in Clients |-> 0]
    /\ UNCHANGED <<fakeUsersDb, currentId, req, guardRun,
                   fakeOrdersDb, orderCurrentId, publisher>>

\* the general hits a client has at the start of the current window
WindowStart(c) ==
    IF now < WindowTicks /\ c = "ip1" THEN GeneralMax - (AuthMax + 1) ELSE 0

InitBuckets ==
    /\ now = 0
    /\ circuit = [u \in Upstreams |-> NewCircuit]
    /\ generalHits = [c \in Clients |-> WindowStart(c)]
    /\ authHits = [c \in Clients |-> 0]
    /\ fakeUsersDb = <<>>
    /\ currentId = 1
    /\ req = [r \in Slots |-> IdleReq]
    /\ admitted = [c \in Clients |-> WindowStart(c)]
    /\ attempts = [c \in Clients |-> 0]
    /\ guardRun = NoGuardRun
    /\ fakeOrdersDb = <<>>
    /\ orderCurrentId = 1
    /\ publisher = NewPublisher

BucketTraffic ==
    \E r \in Slots, c \in Clients, rt \in {"login", "status"} :
      \E body \in (IF rt = "login" THEN WrongLogins ELSE {NoBody}) :
        /\ generalHits[c] < WindowStart(c) +
               (IF c = "ip1" THEN AuthMax + 1 + MaxOver ELSE MaxOver)
        /\ Arrive(r, c, rt, Cred("absent", FALSE, {}, 0), body)

NextBuckets ==
    \/ BucketTraffic
    \/ \E r \in Slots : UpstreamRespond(r, 401)
    \/ \E r \in Slots : Finish(r)
    \/ \E r \in Slots : Recycle(r)
    \/ WindowElapses

SpecBuckets == InitBuckets /\ [][NextBuckets]_vars

(***************************************************************************)
(* Specification of a burst on the credential routes: an account exists,   *)
(* its owner sends logins with the right password, as many at once as the  *)
(* authLimiter's max and one more; the users upstream answers every one.   *)
(***************************************************************************)
BurstSlots == 1..(AuthMax + 1)
OwnerAccount == [email |-> "a@x", password |-> "pw", name |-> "n"]

InitBurst ==
    /\ now = 0
    /\ circuit = [u \in Upstreams |-> NewCircuit]
    /\ generalHits = [c \in Clients |-> 0]
    /\ authHits = [c \in Clients |-> 0]
    /\ fakeUsersDb = [id \in {1} |-> createUserModel(1, OwnerAccount)]
    /\ currentId = 2
    /\ req = [r \in BurstSlots |-> IdleReq]
    /\ admitted = [c \in Clients |-> 0]
    /\ attempts = [c \in Clients |-> 0]
    /\ guardRun = NoGuardRun
    /\ fakeOrdersDb = <<>>
    /\ orderCurrentId = 1
    /\ publisher = NewPublisher

BurstTraffic ==
    \E r \in BurstSlots, body \in OwnerLogins :
      /\ generalHits["ip1"] < AuthMax + MaxOver
      /\ Arrive(r, "ip1", "login", Cred("absent", FALSE, {}, 0), body)

NextBurst ==
    \/ BurstTraffic
    \/ \E r \in BurstSlots : UpstreamRespond(r, 200)
    \/ \E r \in BurstSlots : Finish(r)
    \/ \E r \in BurstSlots : Recycle(r)

SpecBurst == InitBurst /\ [][NextBurst]_vars

(***************************************************************************)
(* Specification of the aggregated read: a manager's requests for          *)
(* /users/:userId/details with every path parameter, the two calls of each *)
(* answered or failing in any order, while orders are placed at the orders *)
(* service.                                                                *)
(***************************************************************************)
MaxOrders == 2       \* orders placed at the orders service
MaxReads == 3        \* aggregated reads sent

\* the user ids orders are placed for
OrderUserIds == {1, 2, 10}

\* the call of request q on upstream u: the users call is the first one
CallOf(q, u) == IF u = "users" THEN q.call ELSE q.call2

\* request q with its call on upstream u resolved to res
WithCall(q, u, res) ==
    IF u = "users"
      THEN [q EXCEPT !.call = [@ EXCEPT !.st = "resolved", !.result = res]]
    ELSE [q EXCEPT !.call2 = [@ EXCEPT !.st = "resolved", !.result = res]]

\* Promise.all: the handler resumes once both calls are resolved
Aggregated(q) ==
    IF q.call.st = "resolved" /\ q.call2.st = "resolved" THEN DetailsSent(q)
    ELSE q

\* POST /orders of the orders service with a valid body for user userId:
\* the order is stored when checkUserExists says so.
PlaceOrder(userId, reachable) ==
    /\ orderCurrentId <= MaxOrders
    /\ checkUserExists(fakeUsersDb, userId, reachable)
    /\ fakeOrdersDb' =
         Stored(fakeOrdersDb,
                createOrderModel(orderCurrentId, DefaultOrder(userId)))
    /\ orderCurrentId' = orderCurrentId + 1
    /\ UNCHANGED <<now, circuit, generalHits, authHits, fakeUsersDb, currentId,
                   req, admitted, attempts, guardRun, publisher>>

\* The upstream u answers its call of the aggregated read r: the users
\* service with the user or 404, the orders service with all orders; the
\* breaker records a success.
DetailsCallResponds(r, u) ==
    /\ req[r].pc = "aggregating"
    /\ CallOf(req[r], u).st = "inflight"
    /\ circuit' = [circuit EXCEPT ![u] = CircuitSuccess(@)]
    /\ LET res == IF u = "users"
                    THEN GetUser(fakeUsersDb, req[r].body.userId)
                  ELSE GetOrders(fakeOrdersDb)
       IN req' = [req EXCEPT ![r] = Aggregated(WithCall(@, u, res))]
    /\ UNCHANGED <<now, generalHits, authHits, fakeUsersDb, currentId,
                   admitted, attempts, guardRun,
                   fakeOrdersDb, orderCurrentId, publisher>>

\* The call of the aggregated read r on upstream u fails (connection
\* failure or timeout): the breaker records a failure and the call resolves
\* to the fallback.
DetailsCallFails(r, u) ==
    /\ req[r].pc = "aggregating"
    /\ CallOf(req[r], u).st = "inflight"
    /\ circuit' = [circuit EXCEPT ![u] = CircuitFail(@, now)]
    /\ req' = [req EXCEPT ![r] = Aggregated(WithCall(@, u, Fallback))]
    /\ UNCHANGED <<now, generalHits, authHits, fakeUsersDb, currentId,
                   admitted, attempts, guardRun,
                   fakeOrdersDb, orderCurrentId, publisher>>

InitDetails ==
    /\ now = 0
    /\ circuit = [u \in Upstreams |-> NewCircuit]
    /\ generalHits = [c \in Clients |-> 0]
    /\ authHits = [c \in Clients |-> 0]
    /\ fakeUsersDb = [id \in {1} |-> createUserModel(1, OwnerAccount)]
    /\ currentId = 2
    /\ req = [r \in Slots |-> IdleReq]
    /\ admitted = [c \in Clients |-> 0]
    /\ attempts = [c \in Clients |-> 0]
    /\ guardRun = NoGuardRun
    /\ fakeOrdersDb = <<>>
    /\ orderCurrentId = 1
    /\ publisher = NewPublisher

DetailsTraffic ==
    \E r \in Slots, s \in IdStrings :
      /\ generalHits["ip1"] < MaxReads
      /\ Arrive(r, "ip1", "userDetails", AdminCred, [userId |-> s])

NextDetails ==
    \/ DetailsTraffic
    \/ \E userId \in OrderUserIds, reachable \in BOOLEAN :
         PlaceOrder(userId, reachable)
    \/ \E r \in Slots, u \in Upstreams : DetailsCallResponds(r, u)
    \/ \E r \in Slots, u \in Upstreams : DetailsCallFails(r, u)
    \/ \E r \in Slots : Recycle(r)

SpecDetails == InitDetails /\ [][NextDetails]_vars

(***************************************************************************)
(* Specification of the order routes that publish events: POST /orders,    *)
(* PATCH /orders/:orderId/status and PATCH /orders/:orderId/cancel, sent   *)
(* with and without the roles they need by a client close to its general   *)
(* budget; the orders service answers or fails, publish returns or raises. *)
(* The orders service of this repository has no PATCH route: what answers  *)
(* the two PATCH calls is a service that reports success or not-found.     *)
(***************************************************************************)
MaxEventReqs == 3    \* requests sent to the order routes

EventRoutes == {"postOrder", "patchStatus", "patchCancel"}
\* an Admin token issued to user 2, a Customer token issued to user 1, no
\* token
EventCreds ==
    {[AdminCred EXCEPT !.id = 2], Cred("signed", TRUE, {"Customer"}, ExpiresIn),
     Cred("absent", FALSE, {}, 0)}
OrderIdStrings == {"1", "2"}

\* the bodies (and path parameters) of the requests sent to route rt
EventBodies(rt) ==
    IF rt = "postOrder"
      THEN {DefaultOrder(1),
            OrderData(2, <<[quantity |-> 1, price |-> 5],
                           [quantity |-> 3, price |-> 4]>>,
                      Undefined, "completed"),
            OrderData(1, <<[quantity |-> 2, price |-> 10]>>, 7, "-"),
            OrderData(1, <<>>, Undefined, "-")}
    ELSE {[orderId |-> s] : s \in OrderIdStrings}

\* what the upstream answers the changing call of request q with: POST
\* /orders as the orders service does (alt: the users service is reachable
\* for checkUserExists), a PATCH with success (alt) or not-found
ChangeAnswer(q, alt) ==
    IF RouteTable[q.route].kind = "create"
      THEN PostOrders(fakeUsersDb, orderCurrentId, q.body, alt)
    ELSE IF alt THEN RespData(200, OrderBody(TRUE, NoOrder))
    ELSE RespData(404, OrderBody(FALSE, NoOrder))

\* The read of PATCH status resolves, to the orders service's answer or,
\* when the call fails, to the fallback (oldStatus stays null); the handler
\* goes on to fire the change.
OrderReadResolves(r, failed) ==
    /\ req[r].pc = "reading"
    /\ req[r].call.st = "inflight"
    /\ LET res == IF failed THEN Fallback
                  ELSE GetOrder(fakeOrdersDb, req[r].body.orderId)
           cs == [circuit EXCEPT !["orders"] =
                    IF failed THEN CircuitFail(@, now) ELSE CircuitSuccess(@)]
           next == SecondFire(WithCall(req[r], "users", res), cs, now)
       IN /\ circuit' = next.circuit
          /\ req' = [req EXCEPT ![r] = next.q]
    /\ UNCHANGED <<now, generalHits, authHits, fakeUsersDb, currentId,
                   admitted, attempts, guardRun,
                   fakeOrdersDb, orderCurrentId, publisher>>

\* The orders service answers the changing call of request r; the breaker
\* records a success and the handler publishes (when due) and responds.
OrderCallResponds(r, alt, pub) ==
    /\ req[r].pc = "ordering"
    /\ ChangeCall(req[r]).st = "inflight"
    /\ circuit' = [circuit EXCEPT !["orders"] = CircuitSuccess(@)]
    /\ LET res == ChangeAnswer(req[r], alt)
           u == IF RouteTable[req[r].route].kind = "status" THEN "orders"
                ELSE "users"
       IN /\ req' = [req EXCEPT ![r] = OrderSent(WithCall(@, u, res), pub)]
          /\ IF RouteTable[req[r].route].kind = "create" /\ res.status = 201
               THEN /\ fakeOrdersDb' = Stored(fakeOrdersDb, res.data.data)
                    /\ orderCurrentId' = orderCurrentId + 1
             ELSE UNCHANGED <<fakeOrdersDb, orderCurrentId>>
    /\ UNCHANGED <<now, generalHits, authHits, fakeUsersDb, currentId,
                   admitted, attempts, guardRun, publisher>>

\* The changing call of request r fails (connection failure or timeout):
\* the breaker records a failure, the call resolves to the fallback and
\* the handler responds.
OrderCallFails(r) ==
    /\ req[r].pc = "ordering"
    /\ ChangeCall(req[r]).st = "inflight"
    /\ circuit' = [circuit EXCEPT !["orders"] = CircuitFail(@, now)]
    /\ LET u == IF RouteTable[req[r].route].kind = "status" THEN "orders"
                ELSE "users"
       IN req' = [req EXCEPT ![r] = OrderSent(WithCall(@, u, Fallback), "ok")]
    /\ UNCHANGED <<now, generalHits, authHits, fakeUsersDb, currentId,
                   admitted, attempts, guardRun,
                   fakeOrdersDb, orderCurrentId, publisher>>

InitEvents ==
    /\ now = 0
    /\ circuit = [u \in Upstreams |-> NewCircuit]
    /\ generalHits = [c \in Clients |-> GeneralMax - NearLimit]
    /\ authHits = [c \in Clients |-> 0]
    /\ fakeUsersDb = [id \in {1} |-> createUserModel(1, OwnerAccount)]
    /\ currentId = 2
    /\ req = [r \in Slots |-> IdleReq]
    /\ admitted = [c \in Clients |-> GeneralMax - NearLimit]
    /\ attempts = [c \in Clients |-> 0]
    /\ guardRun = NoGuardRun
    /\ fakeOrdersDb = <<>>
    /\ orderCurrentId = 1
    /\ publisher = NewPublisher

EventTraffic ==
    \E r \in Slots, rt \in EventRoutes, cred \in EventCreds :
      \E body \in EventBodies(rt) :
        /\ generalHits["ip1"] < GeneralMax - NearLimit + MaxEventReqs
        /\ Arrive(r, "ip1", rt, cred, body)

NextEvents ==
    \/ EventTraffic
    \/ \E r \in Slots, failed \in BOOLEAN : OrderReadResolves(r, failed)
    \/ \E r \in Slots, alt \in BOOLEAN, pub \in PublishOutcomes :
         OrderCallResponds(r, alt, pub)
    \/ \E r \in Slots : OrderCallFails(r)
    \/ \E r \in Slots : Recycle(r)

SpecEvents == InitEvents /\ [][NextEvents]_vars

(***************************************************************************)
(* Specification of order creations against an orders service that may     *)
(* answer after the breaker's timeout: the breaker is built without an     *)
(* abortController, so the axios request of a call that timed out stays in *)
(* flight (late) and its answer, when it comes, is dropped.                *)
(***************************************************************************)
\* the timeout timer of the changing call of request r is due
OrderCallDue(r) ==
    /\ req[r].pc = "ordering"
    /\ ChangeCall(req[r]).st = "inflight"
    /\ now >= ChangeCall(req[r]).startedAt + Timeout

\* The timeout timer of the changing call of request r expires: the
\* breaker records a failure, the call resolves to the fallback and the
\* handler responds; the request to the upstream is still in flight.
OrderCallTimesOut(r) ==
    /\ OrderCallDue(r)
    /\ circuit' = [circuit EXCEPT !["orders"] = CircuitFail(@, now)]
    /\ LET u == IF RouteTable[req[r].route].kind = "status" THEN "orders"
                ELSE "users"
       IN req' = [req EXCEPT ![r] =
                    [OrderSent(WithCall(@, u, Fallback), "ok")
                       EXCEPT !.late = TRUE]]
    /\ UNCHANGED <<now, generalHits, authHits, fakeUsersDb, currentId,
                   admitted, attempts, guardRun,
                   fakeOrdersDb, orderCurrentId, publisher>>

\* variant: a late answer that the handler sends and publishes for
LateAnswerDelivered(r, alt) ==
    /\ req[r].late
    /\ LET res == ChangeAnswer(req[r], alt) IN
         /\ req' = [req EXCEPT ![r] =
                      [OrderSent(WithCall(@, "users", res), "ok")
                         EXCEPT !.late = FALSE]]
         /\ IF res.status = 201
              THEN /\ fakeOrdersDb' = Stored(fakeOrdersDb, res.data.data)
                   /\ orderCurrentId' = orderCurrentId + 1
            ELSE UNCHANGED <<fakeOrdersDb, orderCurrentId>>
    /\ UNCHANGED <<now, circuit, generalHits, authHits, fakeUsersDb, currentId,
                   admitted, attempts, guardRun, publisher>>

\* The orders service handles the request of a call that timed out and
\* answers: a created order is stored, the answer reaches axios and goes
\* nowhere (the breaker's promise is settled, the response is sent).
LateAnswer(r, alt) ==
    /\ req[r].late
    /\ req' = [req EXCEPT ![r].late = FALSE]
    /\ LET res == ChangeAnswer(req[r], alt) IN
         IF res.status = 201
           THEN /\ fakeOrdersDb' = Stored(fakeOrdersDb, res.data.data)
                /\ orderCurrentId' = orderCurrentId + 1
         ELSE UNCHANGED <<fakeOrdersDb, orderCurrentId>>
    /\ UNCHANGED <<now, circuit, generalHits, authHits, fakeUsersDb, currentId,
                   admitted, attempts, guardRun, publisher>>

\* 1000 ms pass while no timer is due
TickOrders == Tick /\ \A r \in Slots : ~OrderCallDue(r)

\* order creations by user 1
TimeoutTraffic ==
    \E r \in Slots :
      /\ generalHits["ip1"] < GeneralMax - NearLimit + MaxEventReqs
      /\ Arrive(r, "ip1", "postOrder",
                Cred("signed", TRUE, {"Customer"}, ExpiresIn), DefaultOrder(1))

NextTimeout ==
    \/ TimeoutTraffic
    \/ \E r \in Slots, pub \in PublishOutcomes : OrderCallResponds(r, TRUE, pub)
    \/ \E r \in Slots : OrderCallTimesOut(r)
    \/ \E r \in Slots : LateAnswer(r, TRUE)
    \/ \E u \in Upstreams : ResetTimerFires(u)
    \/ \E r \in Slots : Recycle(r)
    \/ TickOrders

SpecTimeout == InitEvents /\ [][NextTimeout]_vars

(***************************************************************************)
(* Specification of the handlers' termination: requests to a route with    *)
(* one upstream call and to PATCH status with its two sequential calls,    *)
(* against an orders service that answers, fails or never answers.  Every  *)
(* fired call arms a timer of circuitOptions.timeout; Node's event loop    *)
(* runs the timers that are due and time passes: the fairness conditions.  *)
(***************************************************************************)
MaxLive == 2         \* requests sent in the termination specification

\* the timeout timer of the read of PATCH status is due
ReadDue(r) ==
    /\ req[r].pc = "reading"
    /\ req[r].call.st = "inflight"
    /\ now >= req[r].call.startedAt + Timeout

\* variant: a read without a timeout timer
OrderReadHangs(r) ==
    /\ ReadDue(r)
    /\ UNCHANGED <<now, circuit, generalHits, authHits, fakeUsersDb, currentId,
                   req, admitted, attempts, guardRun,
                   fakeOrdersDb, orderCurrentId, publisher>>

\* The timeout timer of the read of PATCH status expires: the breaker
\* records a failure, the read resolves to the fallback and the handler
\* goes on to fire the change.
OrderReadTimesOut(r) ==
    /\ ReadDue(r)
    /\ OrderReadResolves(r, TRUE)

\* 1000 ms pass while no timer is due
TickLive ==
    /\ Tick
    /\ \A r \in Slots : ~OrderCallDue(r) /\ ~ReadDue(r)

\* the longest a handler of route rt waits for its upstream calls
Budget(rt) ==
    IF RouteTable[rt].kind = "status" THEN 2 * Timeout ELSE Timeout

\* GET /orders/status by anyone and PATCH /orders/1/status by an Admin,
\* arriving while the clock's horizon covers the handler's timers
LiveTraffic ==
    \E r \in Slots :
      \E t \in {<<"ordersStatus", Cred("absent", FALSE, {}, 0), NoBody>>,
                 <<"patchStatus", AdminCred, [orderId |-> "1"]>>} :
        /\ generalHits["ip1"] < MaxLive
        /\ now + Budget(t[1]) <= MaxTime
        /\ Arrive(r, "ip1", t[1], t[2], t[3])

NextLive ==
    \/ LiveTraffic
    \/ \E r \in Slots, st \in BlackBoxStatuses : UpstreamRespond(r, st)
    \/ \E r \in Slots : UpstreamFail(r)
    \/ \E r \in Slots : CallTimeout(r)
    \/ \E r \in Slots, failed \in BOOLEAN : OrderReadResolves(r, failed)
    \/ \E r \in Slots : OrderReadTimesOut(r)
    \/ \E r \in Slots, alt \in BOOLEAN, pub \in PublishOutcomes :
         OrderCallResponds(r, alt, pub)
    \/ \E r \in Slots : OrderCallFails(r)
    \/ \E r \in Slots : OrderCallTimesOut(r)
    \/ \E r \in Slots : LateAnswer(r, TRUE)
    \/ \E u \in Upstreams : ResetTimerFires(u)
    \/ \E r \in Slots : Recycle(r)
    \/ TickLive

\* the timers that are due run, and time passes
LiveFairness ==
    /\ WF_vars(TickLive)
    /\ \A r \in Slots : /\ WF_vars(CallTimeout(r))
                       /\ WF_vars(OrderReadTimesOut(r))
                       /\ WF_vars(OrderCallTimesOut(r))
    /\ \A u \in Upstreams : WF_vars(ResetTimerFires(u))

SpecLive == Init /\ [][NextLive]_vars /\ LiveFairness

(***************************************************************************)
(* Specification of the users list: an Admin lists the users of a store    *)
(* holding up to MaxListUsers users, with every kind of page and limit.    *)
(***************************************************************************)
MaxListUsers == 3    \* users in the store
MaxLists == 2        \* requests sent to the users-list route

\* the page and limit parameters: absent, below range, in range, above
\* range, not a number
PageParams == {"-", "0", "-5", "2", "7", "abc"}
LimitParams == {"-", "0", "1", "2", "500", "abc"}
ListQueries ==
    {[page |-> pg, limit |-> l, role |-> ro] :
       pg \in PageParams, l \in LimitParams, ro \in {"-", "Customer", "Admin"}}

\* the registered users
ListAccounts ==
    <<[email |-> "a@x", password |-> "pw", name |-> "a"],
      [email |-> "b@y", password |-> "pw", name |-> "b"],
      [email |-> "c@z", password |-> "pw", name |-> "c"]>>

\* the envelope the users-list handler builds from a 200 answer
ListEnvelope(result, query) ==
    LET limitNum == LimitNum(query.limit)
        data == result.data
    IN [success |-> TRUE, data |-> data.users,
        pagination |->
          [page |-> PageNum(query.page), limit |-> limitNum,
           total |-> IF ~Falsy(data.total) THEN data.total ELSE data.users,
           totalPages |->
             IF ~Falsy(data.totalPages) THEN data.totalPages
             ELSE MathCeilDiv(IF Falsy(data.total) THEN 0 ELSE data.total,
                              limitNum)],
        filters |-> [role |-> query.role]]

\* The users service answers the list call of request r; the breaker
\* records a success and the handler sends the envelope.
ListRespond(r) ==
    /\ req[r].pc = "waiting"
    /\ req[r].call.st = "inflight"
    /\ req[r].route = "getUsers"
    /\ circuit' = [circuit EXCEPT !["users"] = CircuitSuccess(@)]
    /\ LET res == GetUsers(fakeUsersDb, PassedQuery(req[r].body)) IN
         req' = [req EXCEPT ![r] =
                   [Sent(Resolved(@, res))
                      EXCEPT !.resData = ListEnvelope(res, req[r].body)]]
    /\ UNCHANGED <<now, generalHits, authHits, fakeUsersDb, currentId,
                   admitted, attempts, guardRun,
                   fakeOrdersDb, orderCurrentId, publisher>>

InitList ==
    /\ now = 0
    /\ circuit = [u \in Upstreams |-> NewCircuit]
    /\ generalHits = [c \in Clients |-> 0]
    /\ authHits = [c \in Clients |-> 0]
    /\ \E n \in 0..MaxListUsers :
         /\ fakeUsersDb = [id \in 1..n |-> createUserModel(id, ListAccounts[id])]
         /\ currentId = n + 1
    /\ req = [r \in Slots |-> IdleReq]
    /\ admitted = [c \in Clients |-> 0]
    /\ attempts = [c \in Clients |-> 0]
    /\ guardRun = NoGuardRun
    /\ fakeOrdersDb = <<>>
    /\ orderCurrentId = 1
    /\ publisher = NewPublisher

ListTraffic ==
    \E r \in Slots, query \in ListQueries :
      /\ generalHits["ip1"] < MaxLists
      /\ Arrive(r, "ip1", "getUsers", AdminCred, query)

NextList ==
    \/ ListTraffic
    \/ \E r \in Slots : ListRespond(r)
    \/ \E r \in Slots : UpstreamFail(r)
    \/ \E r \in Slots : Recycle(r)

SpecList == InitList /\ [][NextList]_vars

(***************************************************************************)
(* Specification of the users service's writes: registrations, an admin's  *)
(* creations, updates and deletions and profile updates, sent through the  *)
(* gateway with two emails, two at a time.                                 *)
(***************************************************************************)
MaxUserOps == 4      \* requests sent to the routes that write users

UserWriteRoutes == {"register", "postUser", "putUser", "putProfile",
                    "deleteUser"}

\* the requests: the route, the token, the body and (userId) the path
\* parameter
UserWrites ==
    {[rt |-> rt, cred |-> cred,
      body |-> [userId |-> s, email |-> e, password |-> "pw", name |-> "n"]] :
       rt \in UserWriteRoutes, s \in {"1", "2"}, e \in {"a@x", "b@y", "-"},
       cred \in {AdminCred, Cred("absent", FALSE, {}, 0)}}

\* what the users service does with the write of request q, whose profile
\* route takes the user id from the token
UsersWrite(q, db, nextId) ==
    IF q.route = "register" THEN UserRegister(db, nextId, q.body)
    ELSE IF q.route = "postUser" THEN UserCreate(db, nextId, q.body)
    ELSE IF q.route = "putUser" THEN UserUpdate(db, nextId, q.body.userId, q.body)
    ELSE IF q.route = "putProfile"
      THEN UserUpdate(db, nextId, KeyOf(q.cred.id), ProfileUpdates(q.body))
    ELSE UserDelete(db, nextId, q.body.userId)

\* The users service handles the write of request r and its response
\* reaches the gateway, which forwards it.
UsersRespond(r) ==
    /\ req[r].pc = "waiting"
    /\ req[r].call.st = "inflight"
    /\ req[r].route \in UserWriteRoutes
    /\ LET out == UsersWrite(req[r], fakeUsersDb, currentId) IN
         /\ fakeUsersDb' = out.db
         /\ currentId' = out.nextId
         /\ req' = [req EXCEPT ![r] = Sent(Resolved(@, Response(out.status)))]
    /\ circuit' = [circuit EXCEPT !["users"] = CircuitSuccess(@)]
    /\ UNCHANGED <<now, generalHits, authHits, admitted, attempts, guardRun,
                   fakeOrdersDb, orderCurrentId, publisher>>

UserTraffic ==
    \E r \in Slots, w \in UserWrites :
      /\ generalHits["ip1"] < MaxUserOps
      /\ w.rt = "register" => w.cred.kind = "absent" /\ w.body.userId = "1"
      /\ w.rt \in {"register", "postUser"} => w.body.email # "-"
      /\ Arrive(r, "ip1", w.rt, w.cred, w.body)

NextUsers ==
    \/ UserTraffic
    \/ \E r \in Slots : UsersRespond(r)
    \/ \E r \in Slots : Finish(r)
    \/ \E r \in Slots : Recycle(r)

SpecUsers == Init /\ [][NextUsers]_vars

(***************************************************************************)
(* Specification of the stored roles: registrations, profile updates and   *)
(* an admin's creations and updates whose bodies carry roles and a         *)
(* passwordHash, against a store that holds one Customer.                  *)
(***************************************************************************)
MaxRoleOps == 3      \* requests sent to the routes that write users

\* the bodies: with the extra fields or without
RoleBodies ==
    {[userId |-> "1", email |-> e, password |-> "pw", name |-> "n"] :
       e \in {"b@y", "-"}}
    \cup
    {[userId |-> "1", email |-> e, password |-> "pw", name |-> "n",
      roles |-> ro, passwordHash |-> "h2"] :
       e \in {"b@y", "-"}, ro \in {{"Admin"}, {"Customer", "Manager"}}}

\* the requests: a registration without token, a profile update by the
\* stored Customer, a creation and an update by an Admin
RoleWrites ==
    {w \in [rt : {"register", "putProfile", "postUser", "putUser"},
            cred : {Cred("absent", FALSE, {}, 0),
                    Cred("signed", TRUE, {"Customer"}, ExpiresIn), AdminCred},
            body : RoleBodies] :
       /\ w.rt = "register" => w.cred.kind = "absent"
       /\ w.rt = "putProfile" => w.cred.roles = {"Customer"}
       /\ w.rt \in {"postUser", "putUser"} => w.cred = AdminCred
       /\ w.rt \in {"register", "postUser"} => w.body.email # "-"}

RoleTraffic ==
    \E r \in Slots, w \in RoleWrites :
      /\ generalHits["ip1"] < MaxRoleOps
      /\ Arrive(r, "ip1", w.rt, w.cred, w.body)

NextRoles ==
    \/ RoleTraffic
    \/ \E r \in Slots : UsersRespond(r)
    \/ \E r \in Slots : Finish(r)
    \/ \E r \in Slots : Recycle(r)

SpecRoles == InitDetails /\ [][NextRoles]_vars

(***************************************************************************)
(* Specification of the two stores: the users service and the orders       *)
(* service called directly, with creations, updates and deletions of       *)
(* orders and creations and deletions of users, the users service being    *)
(* reachable or not when the orders service checks a user.                 *)
(***************************************************************************)
MaxUserIds == 2      \* user ids issued
MaxOrderIds == 3     \* order ids issued

\* the bodies of POST /orders: for a user that may exist, with and without
\* a totalAmount, and one the schema refuses
StoreOrders ==
    {DefaultOrder(1), DefaultOrder(2),
     OrderData(1, <<[quantity |-> 2, price |-> 10]>>, 7, "-"),
     OrderData(1, <<[quantity |-> 1, price |-> 5],
                    [quantity |-> 3, price |-> 4]>>, Undefined, "completed"),
     OrderData(1, <<>>, Undefined, "-")}

\* the bodies of PUT /orders/:orderId
StoreUpdates ==
    {[status |-> "completed"],
     [totalAmount |-> 5],
     [items |-> <<[quantity |-> 1, price |-> 5]>>],
     [items |-> <<[quantity |-> 1, price |-> 5]>>, totalAmount |-> 7],
     [items |-> <<[quantity |-> 0, price |-> 5]>>]}

\* the bodies of POST /users
StoreAccounts ==
    {[email |-> e, password |-> "pw", name |-> "n"] : e \in {"a@x", "b@y"}}

OrdersPost(body, reachable) ==
    /\ orderCurrentId <= MaxOrderIds
    /\ LET out == OrderCreate(fakeOrdersDb, fakeUsersDb, orderCurrentId, body,
                              reachable)
       IN /\ fakeOrdersDb' = out.db
          /\ orderCurrentId' = out.nextId
    /\ UNCHANGED <<now, circuit, generalHits, authHits, fakeUsersDb, currentId,
                   req, admitted, attempts, guardRun, publisher>>

OrdersPut(s, body) ==
    /\ LET out == OrderUpdate(fakeOrdersDb, orderCurrentId, s, body)
       IN /\ fakeOrdersDb' = out.db
          /\ orderCurrentId' = out.nextId
    /\ UNCHANGED <<now, circuit, generalHits, authHits, fakeUsersDb, currentId,
                   req, admitted, attempts, guardRun, publisher>>

OrdersDelete(s) ==
    /\ LET out == OrderDelete(fakeOrdersDb, orderCurrentId, s)
       IN /\ fakeOrdersDb' = out.db
          /\ orderCurrentId' = out.nextId
    /\ UNCHANGED <<now, circuit, generalHits, authHits, fakeUsersDb, currentId,
                   req, admitted, attempts, guardRun, publisher>>

UsersPost(body) ==
    /\ currentId <= MaxUserIds
    /\ LET out == UserCreate(fakeUsersDb, currentId, body)
       IN /\ fakeUsersDb' = out.db
          /\ currentId' = out.nextId
    /\ UNCHANGED <<now, circuit, generalHits, authHits, req, admitted,
                   attempts, guardRun, fakeOrdersDb, orderCurrentId,
                   publisher>>

UsersDelete(s) ==
    /\ LET out == UserDelete(fakeUsersDb, currentId, s)
       IN /\ fakeUsersDb' = out.db
          /\ currentId' = out.nextId
    /\ UNCHANGED <<now, circuit, generalHits, authHits, req, admitted,
                   attempts, guardRun, fakeOrdersDb, orderCurrentId,
                   publisher>>

NextStores ==
    \/ \E body \in StoreOrders, reachable \in BOOLEAN :
         OrdersPost(body, reachable)
    \/ \E s \in OrderIdStrings, body \in StoreUpdates : OrdersPut(s, body)
    \/ \E s \in OrderIdStrings : OrdersDelete(s)
    \/ \E body \in StoreAccounts : UsersPost(body)
    \/ \E s \in OrderIdStrings : UsersDelete(s)

SpecStores == Init /\ [][NextStores]_vars

\* the steps of the specification of the guards: the requests of
\* GuardTraffic and the completion of their handlers
NextGuards ==
    \/ GuardTraffic
    \/ \E st \in BlackBoxStatuses \cup {201, 401, 409} : UpstreamRespond(1, st)
    \/ UpstreamFail(1)
    \/ \E u \in Upstreams : DetailsCallResponds(1, u)
    \/ \E u \in Upstreams : DetailsCallFails(1, u)
    \/ \E failed \in BOOLEAN : OrderReadResolves(1, failed)
    \/ \E alt \in BOOLEAN, pub \in PublishOutcomes :
         OrderCallResponds(1, alt, pub)
    \/ OrderCallFails(1)
    \/ Finish(1)
    \/ Recycle(1)

SpecGuards == InitGuards /\ [][NextGuards]_vars

(***************************************************************************)
(* Specification of the forwarding routes: requests with an Admin's token  *)
(* to every route that sends the upstream's answer as it is, against       *)
(* upstreams that answer with a success or an error status, or fail.       *)
(***************************************************************************)
MaxForwards == 3     \* requests sent to the forwarding routes

\* the statuses an upstream answers with
ReportedStatuses == {200, 201, 400, 401, 404, 409, 500, 503}

ForwardRoutes == {rt \in RouteIds : RouteTable[rt].kind = "forward"}

\* The upstream answers the call of request r on a forwarding route with
\* status st (its stores are left out); axios resolves, the breaker
\* records a success, the handler resumes and sends the response.
ForwardRespond(r, st) ==
    /\ req[r].pc = "waiting"
    /\ req[r].call.st = "inflight"
    /\ req[r].route \in ForwardRoutes
    /\ LET u == RouteTable[req[r].route].up IN
         circuit' = [circuit EXCEPT ![u] = CircuitSuccess(@)]
    /\ req' = [req EXCEPT ![r] = Sent(Resolved(@, Response(st)))]
    /\ UNCHANGED <<now, generalHits, authHits, fakeUsersDb, currentId,
                   admitted, attempts, guardRun,
                   fakeOrdersDb, orderCurrentId, publisher>>

ForwardTraffic ==
    \E r \in Slots, rt \in ForwardRoutes :
      /\ generalHits["ip1"] < MaxForwards
      /\ Arrive(r, "ip1", rt, AdminCred, NoBody)

NextForward ==
    \/ ForwardTraffic
    \/ \E r \in Slots, st \in ReportedStatuses : ForwardRespond(r, st)
    \/ \E r \in Slots : UpstreamFail(r)
    \/ \E r \in Slots : Finish(r)
    \/ \E r \in Slots : Recycle(r)

SpecForward == Init /\ [][NextForward]_vars

(***************************************************************************)
(* Specification of an EventPublisher on its own: handlers that return or  *)
(* throw are subscribed, a broker is plugged into the extension point or   *)
(* connectMessageBroker is called, and events of every type are published  *)
(* while the logger or the broker delivery may fail.                       *)
(***************************************************************************)
MaxSubs == 2         \* handlers subscribed to one event type

Subscribe(ty, h) ==
    /\ Len(publisher.subscribers[ty]) < MaxSubs
    /\ publisher' = subscribe(publisher, ty, h)
    /\ UNCHANGED <<now, circuit, generalHits, authHits, fakeUsersDb, currentId,
                   req, admitted, attempts, guardRun,
                   fakeOrdersDb, orderCurrentId>>

ConnectMessageBroker ==
    /\ publisher' = connectMessageBroker(publisher)
    /\ UNCHANGED <<now, circuit, generalHits, authHits, fakeUsersDb, currentId,
                   req, admitted, attempts, guardRun,
                   fakeOrdersDb, orderCurrentId>>

\* The owner of the publisher plugs a broker into the extension point: the
\* two fields the constructor initialises are set.
EnableBroker ==
    /\ publisher' = [publisher EXCEPT !.messageBroker = "broker",
                                      !.isMessageBrokerEnabled = TRUE]
    /\ UNCHANGED <<now, circuit, generalHits, authHits, fakeUsersDb, currentId,
                   req, admitted, attempts, guardRun,
                   fakeOrdersDb, orderCurrentId>>

Publish(ty, fail) ==
    /\ publisher' = [publisher EXCEPT !.last = publish(publisher, ty, fail)]
    /\ UNCHANGED <<now, circuit, generalHits, authHits, fakeUsersDb, currentId,
                   req, admitted, attempts, guardRun,
                   fakeOrdersDb, orderCurrentId>>

NextPublisher ==
    \/ \E ty \in EventTypes, h \in HandlerBehaviours : Subscribe(ty, h)
    \/ ConnectMessageBroker
    \/ EnableBroker
    \/ \E ty \in EventTypes, fail \in PublishFailures : Publish(ty, fail)

SpecPublisher == Init /\ [][NextPublisher]_vars

\* An EventPublisher used through its methods only: nothing is plugged
\* into the extension point.
NextInert ==
    \/ \E ty \in EventTypes, h \in HandlerBehaviours : Subscribe(ty, h)
    \/ ConnectMessageBroker
    \/ \E ty \in EventTypes, fail \in PublishFailures : Publish(ty, fail)

SpecInert == Init /\ [][NextInert]_vars

(***************************************************************************)
(* Properties of the breakers                                              *)
(***************************************************************************)
\* request r fires its upstream's breaker in this step
Fires(r) == req[r].pc = "idle" /\ req'[r].call.st # "none"
UpOf(q) == IF q.route \in RouteIds THEN RouteTable[q.route].up ELSE "none"

\* the breaker of u is open and its cool-down has not elapsed
InCoolDown(u) ==
    /\ circuit[u].state = "open"
    /\ circuit[u].resetTimer # NoTimer
    /\ now < circuit[u].resetTimer

\* a failure is recorded on u in this step
FailureRecorded(u) ==
    Stats(circuit'[u]).failures > Stats(circuit[u]).failures

\* C1 (first half): whenever a recorded failure leaves the failure ratio
\* of the rolling window above the 50% threshold, the breaker is Open
\* after that step, with its cool-down timer armed.
C1_OpensOnThreshold ==
    \A u \in Upstreams :
      (FailureRecorded(u) /\ ErrorRateExceeded(Stats(circuit'[u])))
        => /\ circuit'[u].state = "open"
           /\ circuit'[u].resetTimer # NoTimer
           /\ circuit'[u].resetTimer <= now + ResetTimeout

\* C1 (second half): a call fired while the breaker is Open and the
\* cool-down has not elapsed resolves to the fallback and no HTTP request
\* is sent to the upstream.
C1_ShortCircuits ==
    \A r \in Slots :
      (Fires(r) /\ InCoolDown(UpOf(req'[r])))
        => /\ req'[r].call.result = Fallback
           /\ ~req'[r].call.sent
           /\ req'[r].call.st = "resolved"

\* C1 (between the two): during the cool-down the breaker stays Open and
\* its reset timer is not re-armed.
C1_StaysOpen ==
    \A u \in Upstreams :
      InCoolDown(u) => /\ circuit'[u].state = "open"
                       /\ circuit'[u].resetTimer = circuit[u].resetTimer

\* C1: for each upstream breaker and any sequence of calls, once failures
\* push the failure ratio of the rolling window over the 50% threshold the
\* breaker is Open, it stays Open until the 3000 ms cool-down has elapsed,
\* and every call fired before that returns the fallback without an HTTP
\* request to the upstream.
C1_OpenBreakerShortCircuits ==
    /\ [][C1_OpensOnThreshold]_vars
    /\ [][C1_ShortCircuits]_vars
    /\ [][C1_StaysOpen]_vars

\* a request was short-circuited by an Open breaker during its cool-down
C1_Witness ==
    \E r \in Slots :
      /\ req[r].pc = "done" /\ req[r].call.result = Fallback
      /\ ~req[r].call.sent
      /\ InCoolDown(UpOf(req[r]))

\* the call in flight on u resolves in this step, to a response / to the
\* fallback
Resolves(r) == r \in UNION {InFlight(u) : u \in Upstreams}
               /\ req'[r].call.st = "resolved"
ProbeSucceeds(u) ==
    /\ circuit[u].state = "halfOpen"
    /\ \E r \in InFlight(u) : Resolves(r) /\ req'[r].call.result.kind = "response"
ProbeFails(u) ==
    /\ circuit[u].state = "halfOpen"
    /\ \E r \in InFlight(u) : Resolves(r) /\ req'[r].call.result = Fallback

\* the first call fired on a Half-Open breaker is sent to the upstream as
\* the probe
C2_NextCallIsProbe ==
    \A r \in Slots : \A u \in Upstreams :
      (Fires(r) /\ UpOf(req'[r]) = u /\ circuit[u].state = "halfOpen"
                /\ InFlight(u) = {})
        => /\ req'[r].call.sent /\ req'[r].call.st = "inflight"
           /\ InFlight(u)' = {r}

\* a call fired while the probe is in flight is not sent
C2_OnlyThatCall ==
    \A r \in Slots : \A u \in Upstreams :
      (Fires(r) /\ UpOf(req'[r]) = u /\ circuit[u].state = "halfOpen"
                /\ InFlight(u) # {})
        => ~req'[r].call.sent /\ req'[r].call.result = Fallback

\* a failed probe returns the breaker to Open with a fresh cool-down
C2_FailedProbeReopens ==
    \A u \in Upstreams :
      ProbeFails(u) => /\ circuit'[u].state = "open"
                       /\ circuit'[u].resetTimer = now + ResetTimeout

\* a successful probe closes the breaker and resets its counters
C2_ProbeClosesAndResets ==
    \A u \in Upstreams :
      ProbeSucceeds(u) => /\ circuit'[u].state = "closed"
                          /\ circuit'[u].window = EmptyWindow

\* a successful probe closes the breaker; the counters of the rolling
\* window keep their values
C2_ProbeClosesKeepsCounters ==
    \A u \in Upstreams :
      ProbeSucceeds(u) => /\ circuit'[u].state = "closed"
                          /\ circuit'[u].resetTimer = NoTimer
                          /\ circuit'[u].window = circuit[u].window

\* C2 as stated: after the cool-down the next call and only that call is
\* let through as the Half-Open probe; a successful probe makes the breaker
\* Closed with its counters reset, a failed probe makes it Open again with
\* a fresh cool-down.
C2_Original ==
    [][/\ C2_NextCallIsProbe /\ C2_OnlyThatCall
       /\ C2_ProbeClosesAndResets /\ C2_FailedProbeReopens]_vars

\* C2 amended: after the cool-down the next call and only that call is let
\* through as the Half-Open probe; a successful probe makes the breaker
\* Closed, the counters of its rolling window being kept and not reset; a
\* failed probe makes it Open again with a fresh cool-down.
C2_ProbeDecides ==
    [][/\ C2_NextCallIsProbe /\ C2_OnlyThatCall
       /\ C2_ProbeClosesKeepsCounters /\ C2_FailedProbeReopens]_vars

\* a probe succeeded: a call fired in Half-Open got a response and the
\* breaker is Closed with the earlier failure still in its window
C2_Witness ==
    \E r \in Slots :
      /\ req[r].pc = "done" /\ req[r].call.firedIn = "halfOpen"
      /\ req[r].call.result.kind = "response"
      /\ circuit[UpOf(req[r])].state = "closed"
      /\ Stats(circuit[UpOf(req[r])]).failures > 0

\* C3: while a breaker is Half-Open at most one call is in flight on its
\* upstream, the probe, and every other request that fires the breaker
\* before the probe has resolved gets the fallback without an HTTP request
\* to the upstream, whatever the order of arrivals.
C3_SingleProbe ==
    /\ [](\A u \in Upstreams :
            circuit[u].state = "halfOpen" =>
              /\ Cardinality(InFlight(u)) <= 1
              /\ (circuit[u].pendingClose <=> InFlight(u) = {}))
    /\ [][\A r \in Slots : \A u \in Upstreams :
            (Fires(r) /\ UpOf(req'[r]) = u /\ circuit[u].state = "halfOpen"
               /\ InFlight(u) # {})
              => /\ InFlight(u)' = InFlight(u)
                 /\ req'[r].call.result = Fallback /\ ~req'[r].call.sent]_vars

\* two requests met a Half-Open breaker: the probe is in flight, the other
\* was answered from the fallback
C3_Witness ==
    \E r1, r2 \in Slots :
      /\ r1 # r2 /\ req[r1].pc = "waiting" /\ req[r2].pc = "done"
      /\ UpOf(req[r1]) = UpOf(req[r2])
      /\ circuit[UpOf(req[r1])].state = "halfOpen"
      /\ InFlight(UpOf(req[r1])) = {r1}
      /\ req[r1].call.firedIn = "halfOpen"
      /\ req[r2].call.firedIn = "halfOpen"
      /\ ~req[r2].call.sent /\ req[r2].call.result = Fallback

\* C4: whenever the breaker's fallback fires on a single-upstream route
\* (breaker Open, timeout or transport failure) the client receives the
\* fixed 503 response with the 'temporarily unavailable' message.
C4_FallbackIs503 ==
    \A r \in Slots :
      (req[r].pc \in {"responded", "done"} /\ req[r].call.result = Fallback)
        => req[r].status = 503 /\ req[r].resBody = "unavailable"

(***************************************************************************)
(* Properties of the guards and the limiters                               *)
(***************************************************************************)
\* request r arrives in this step
Arrives(r) == req[r].pc = "idle" /\ req'[r].pc # "idle"

\* generalLimiter passes the arriving request r on to the route
Admitted(r) == Arrives(r) /\ admitted' # admitted

\* the arriving request r is answered by the gateway alone: no claims are
\* attached beyond what the guards decoded, no breaker is fired
NoUpstreamCall(r) == req'[r].call = NoCall /\ circuit' = circuit

\* C5: a request to an authenticated route (one that generalLimiter let
\* through to the route) whose credential is absent, not a Bearer token,
\* fails signature verification or is expired gets 401, its claims are
\* never attached to the request and no upstream call is fired for it.
C5_BadCredentialIs401 ==
    [][\A r \in Slots :
         (Admitted(r) /\ RouteTable[req'[r].route].auth
                      /\ ~JwtVerifies(req'[r].cred, now))
           => /\ req'[r].status = 401
              /\ req'[r].resBody \in {"tokenMissing", "tokenInvalid"}
              /\ req'[r].user = NoUser
              /\ NoUpstreamCall(r)]_vars

\* requests with an expired token and with a forged token were answered
\* 401 on a role-guarded route
C5_Witness ==
    /\ req[1].pc = "done" /\ req[1].status = 401
    /\ req[1].cred.kind = "signed" /\ req[1].cred.exp <= now
    /\ RoleGuarded(req[1].route)
    /\ req[1].user = NoUser /\ req[1].call = NoCall

\* C6: on every role-guarded route, a request with a valid credential
\* (that generalLimiter let through) is forwarded, that is, its handler
\* fires the call on the upstream's breaker, if and only if the caller's
\* roles intersect the route's allowed roles, and a breaker that admits
\* the call sends it to the upstream (PATCH status, whose read is refused
\* by the breaker, fires it a second time for the change); when the role
\* sets are disjoint the response is 403 and no upstream call is fired.
C6_RolesDecideForwarding ==
    [][\A r \in Slots :
         (Admitted(r) /\ RoleGuarded(req'[r].route)
                      /\ JwtVerifies(req'[r].cred, now))
           => LET allowed == RouteTable[req'[r].route].roles
                  mine == IF req'[r].cred.hasRoles THEN req'[r].cred.roles
                          ELSE {}
              IN /\ (req'[r].call.st # "none") <=> (allowed \cap mine # {})
                 /\ (allowed \cap mine = {})
                      => req'[r].status = 403 /\ NoUpstreamCall(r)
                 /\ (allowed \cap mine # {})
                      => /\ req'[r].call.sent
                              <=> CircuitAdmits(circuit[UpOf(req'[r])])
                         /\ circuit'[UpOf(req'[r])] =
                              IF /\ RouteTable[req'[r].route].kind = "status"
                                 /\ ~CircuitAdmits(circuit[UpOf(req'[r])])
                                THEN CircuitFire(CircuitFire(
                                       circuit[UpOf(req'[r])]))
                              ELSE CircuitFire(circuit[UpOf(req'[r])])]_vars

\* a Manager's request was forwarded on a route for Manager and Admin, and
\* a Customer's request was rejected on a role-guarded route
C6_WitnessForwarded ==
    /\ req[1].pc = "waiting" /\ req[1].route = "getUser"
    /\ req[1].cred.roles = {"Customer", "Manager"}
    /\ req[1].call.sent

C6_WitnessRejected ==
    /\ req[1].pc = "done" /\ RoleGuarded(req[1].route)
    /\ req[1].user.present /\ req[1].user.roles = {"Customer"}
    /\ req[1].status = 403 /\ req[1].call = NoCall

C6_WitnessOpenBreaker ==
    /\ req[1].pc = "done" /\ req[1].route = "deleteOrder"
    /\ req[1].cred.roles = {"Admin"} /\ req[1].call.firedIn = "open"

\* C7 as stated: the role guard, run on a request that carries no claims,
\* rejects it as Forbidden (403).
C7_NoClaimsIs403 ==
    (guardRun.ran /\ ~guardRun.user.present) => guardRun.status = 403

\* C7 amended: the role guard, run on a request that carries no claims,
\* rejects it as Unauthorized (401, 'Authentication required'); it answers
\* 403 only to a request with claims whose roles are missing or disjoint
\* from the allowed roles.
C7_NoClaimsIs401 ==
    /\ (guardRun.ran /\ ~guardRun.user.present)
         => guardRun.status = 401 /\ guardRun.body = "authRequired"
    /\ (guardRun.ran /\ guardRun.status = 403)
         => /\ guardRun.user.present
            /\ \/ ~guardRun.user.hasRoles
               \/ guardRun.allowed \cap guardRun.user.roles = {}

C7_Witness == guardRun.ran /\ ~guardRun.user.present

\* C8: on every route the guards run in the order rate limiter, auth
\* guard, role guard and stop at the first failure: a throttled request
\* gets 429 whatever its credential, an unauthenticated request to a
\* role-guarded route gets 401 and not 403, and a request a guard rejected
\* fires no upstream call.
C8_Throttled(r) ==
    generalHits[req'[r].client] >= GeneralMax
      => /\ req'[r].status = 429 /\ req'[r].resBody = "generalLimit"
         /\ authHits' = authHits /\ req'[r].user = NoUser
         /\ NoUpstreamCall(r)

C8_AuthLimited(r) ==
    (generalHits[req'[r].client] < GeneralMax
       /\ RouteTable[req'[r].route].authLimited
       /\ authHits[req'[r].client] >= AuthMax)
      => /\ req'[r].status = 429 /\ req'[r].resBody = "authLimit"
         /\ NoUpstreamCall(r)

C8_Unauthenticated(r) ==
    (generalHits[req'[r].client] < GeneralMax
       /\ RouteTable[req'[r].route].auth
       /\ ~JwtVerifies(req'[r].cred, now))
      => /\ req'[r].status = 401 /\ req'[r].user = NoUser
         /\ req'[r].resBody \in {"tokenMissing", "tokenInvalid"}
         /\ NoUpstreamCall(r)

C8_Forbidden(r) ==
    req'[r].status = 403
      => /\ generalHits[req'[r].client] < GeneralMax
         /\ JwtVerifies(req'[r].cred, now)
         /\ RoleGuarded(req'[r].route)
         /\ NoUpstreamCall(r)

C8_GuardOrder ==
    [][\A r \in Slots :
         Arrives(r) => /\ C8_Throttled(r) /\ C8_AuthLimited(r)
                       /\ C8_Unauthenticated(r) /\ C8_Forbidden(r)
                       /\ (req'[r].call.st # "none"
                             => req'[r].status \notin {401, 403, 429}
                                \/ req'[r].resBody \in {"upstream", "internalError", "listEnvelope"})]_vars

\* a throttled request carried a valid Admin token on a role-guarded route
C8_Witness ==
    /\ req[1].pc = "done" /\ req[1].status = 429
    /\ RoleGuarded(req[1].route)
    /\ JwtVerifies(req[1].cred, now) /\ req[1].cred.roles = {"Admin"}
    /\ req[1].call = NoCall

\* C9: for any client address the general limiter admits at most 100
\* requests in one window; every further request is answered 429 with the
\* limiter's fixed body and reaches neither a guard, a handler nor an
\* upstream.
C9_GeneralBudget ==
    /\ [](\A c \in Clients : admitted[c] <= GeneralMax)
    /\ [][\A r \in Slots :
            (Arrives(r) /\ admitted[req'[r].client] >= GeneralMax)
              => /\ req'[r].status = 429 /\ req'[r].resBody = "generalLimit"
                 /\ req'[r].user = NoUser /\ ~req'[r].hooked
                 /\ admitted' = admitted /\ attempts' = attempts
                 /\ authHits' = authHits
                 /\ NoUpstreamCall(r)]_vars
    /\ [][\A r \in Slots :
            (Arrives(r) /\ admitted[req'[r].client] < GeneralMax)
              => Admitted(r) /\ req'[r].resBody # "generalLimit"]_vars

\* a client's 101st request, with a valid Admin token, was answered 429
C9_Witness ==
    /\ admitted["ip1"] = GeneralMax /\ generalHits["ip1"] = GeneralMax + 1
    /\ req[1].pc = "done" /\ req[1].client = "ip1"
    /\ req[1].status = 429 /\ req[1].resBody = "generalLimit"
    /\ req[1].cred = AdminCred /\ req[1].call = NoCall

\* C10: when one client sends login attempts with a wrong password in one
\* window, each of the first 5 passes authLimiter and is fired on the users
\* breaker, which sends it to the upstream unless it is open; every attempt
\* the upstream answers returns 401; every attempt counts toward the
\* credential-route budget; the 6th and every later one returns 429
\* without an upstream call being fired.
C10_SixthLoginThrottled ==
    /\ [](\A r \in Slots :
            (req[r].pc # "idle" /\ req[r].client = Guesser) =>
              IF req[r].ord <= AuthMax
                THEN /\ req[r].call.st # "none"
                     /\ req[r].call.firedIn = "closed" => req[r].call.sent
                     /\ req[r].call.result.kind = "response"
                          => req[r].status = 401 /\ req[r].resBody = "upstream"
                     /\ req[r].pc \in {"responded", "done"}
                          => req[r].status \in {401, 500}
              ELSE /\ req[r].status = 429 /\ req[r].resBody = "authLimit"
                   /\ req[r].call = NoCall)
    /\ [](authHits[Guesser] = attempts[Guesser])
    /\ [][\A r \in Slots :
            (Arrives(r) /\ req'[r].client = Guesser /\ req'[r].ord > AuthMax)
              => circuit' = circuit]_vars

\* the guessing client's 5th attempt was answered 401 by the upstream and
\* its 6th attempt 429 by the gateway
C10_Witness ==
    \E r1, r2 \in Slots :
      /\ req[r1].client = Guesser /\ req[r1].ord = AuthMax
      /\ req[r1].pc = "done" /\ req[r1].status = 401 /\ req[r1].call.sent
      /\ req[r1].call.result = Response(401)
      /\ req[r2].client = Guesser /\ req[r2].ord = AuthMax + 1
      /\ req[r2].pc = "done" /\ req[r2].status = 429
      /\ req[r2].call = NoCall

(***************************************************************************)
(* Properties of the limiters' stores                                      *)
(***************************************************************************)
\* C11: on the credential routes a request that ends with a successful
\* response does not count against the limit of 5: a client whose attempts
\* all succeed is never throttled by authLimiter, however many of its
\* requests are in flight at once.
C11_SuccessNeverThrottled ==
    \A r \in DOMAIN req :
      (req[r].pc # "idle" /\ RouteTable[req[r].route].authLimited)
        => ~(req[r].status = 429 /\ req[r].resBody = "authLimit")

\* C12: a rate-limit bucket is reset when its 15-minute window elapses:
\* at that step every count of both limiters becomes 0, and a client's
\* first request after it, throttled before or not, is admitted and leaves
\* its count at 1.
C12_WindowResets ==
    /\ [][now' # now =>
            \A c \in Clients : generalHits'[c] = 0 /\ authHits'[c] = 0]_vars
    /\ [][\A r \in Slots :
            (Arrives(r) /\ now >= WindowTicks
                        /\ generalHits[req'[r].client] = 0)
              => /\ Admitted(r)
                 /\ req'[r].resBody # "generalLimit"
                 /\ generalHits'[req'[r].client] = 1]_vars
    /\ [][\A r \in Slots :
            (Arrives(r) /\ now >= WindowTicks
                        /\ RouteTable[req'[r].route].authLimited
                        /\ attempts[req'[r].client] = 0
                        /\ generalHits[req'[r].client] < GeneralMax)
              => /\ req'[r].resBody # "authLimit"
                 /\ req'[r].call.st # "none"
                 /\ authHits'[req'[r].client] = 1]_vars

\* client ip1 was throttled by generalLimiter in the first window and its
\* first request of the next window, a login, is admitted by both limiters
C12_Witness ==
    \E r1, r2 \in Slots :
      /\ req[r1].client = "ip1" /\ req[r1].pc = "done"
      /\ req[r1].status = 429 /\ req[r1].resBody = "generalLimit"
      /\ req[r2].client = "ip1" /\ req[r2].pc = "waiting"
      /\ req[r2].route = "login" /\ req[r2].call.sent
      /\ now >= WindowTicks
      /\ generalHits["ip1"] = 1 /\ authHits["ip1"] = 1

\* C13: the counts are kept per client address and limiter: a request of
\* one client, arriving or finishing, never changes another client's
\* counts, and a client under its own budget is never throttled, whatever
\* the other clients' counts.
C13_BucketsPerClient ==
    /\ [][\A r \in Slots :
            (req'[r] # req[r] /\ req'[r].pc # "idle")
              => \A c \in Clients \ {req'[r].client} :
                   /\ generalHits'[c] = generalHits[c]
                   /\ authHits'[c] = authHits[c]]_vars
    /\ [][\A r \in Slots :
            Arrives(r) =>
              /\ generalHits[req'[r].client] < GeneralMax
                   => req'[r].resBody # "generalLimit"
              /\ authHits[req'[r].client] < AuthMax
                   => req'[r].resBody # "authLimit"]_vars

\* client ip1 has exhausted both of its budgets and was throttled by
\* generalLimiter, and client ip2's login is let through to the upstream
C13_Witness ==
    \E r1, r2 \in Slots :
      /\ req[r1].client = "ip1" /\ req[r1].pc = "done"
      /\ req[r1].resBody = "generalLimit"
      /\ generalHits["ip1"] > GeneralMax /\ authHits["ip1"] > AuthMax
      /\ req[r2].client = "ip2" /\ req[r2].pc = "waiting"
      /\ req[r2].route = "login" /\ req[r2].call.sent
      /\ authHits["ip2"] = 1

(***************************************************************************)
(* Properties of the aggregated read                                       *)
(***************************************************************************)
\* the aggregated reads that have been answered
DetailsAnswered ==
    {r \in Slots : /\ req[r].route = "userDetails"
                   /\ req[r].pc \in {"responded", "done"}
                   /\ req[r].call.st = "resolved"}

\* the users call of request r was answered successfully
UserAnswered(r) ==
    /\ req[r].call.result.kind = "response"
    /\ req[r].call.result.status = 200

\* the orders call of request r failed or was short-circuited
OrdersFellBack(r) == req[r].call2.result.kind = "fallback"

\* C14: an aggregated read whose users call was answered successfully and
\* whose orders call failed or was short-circuited is answered 200 with the
\* user and an empty list of orders.
C14_OrdersFailureGivesEmptyList ==
    \A r \in DetailsAnswered :
      UserAnswered(r) /\ OrdersFellBack(r) =>
        /\ req[r].status = 200
        /\ req[r].resData = [user |-> req[r].call.result.data, orders |-> {}]

\* the users call of request r was answered 404
UserNotFound(r) ==
    /\ req[r].call.result.kind = "response"
    /\ req[r].call.result.status = 404

\* C15: an aggregated read whose users call was answered 404 is answered
\* 404 'User not found' without a user or orders, whatever its orders call
\* resolved to (the collection or the fallback).
C15_UserNotFoundIs404 ==
    \A r \in DetailsAnswered :
      UserNotFound(r) =>
        /\ req[r].status = 404
        /\ req[r].resBody = "userNotFound"
        /\ req[r].resData = NoData

\* C15 happens: a read answered 404 whose orders call resolved to the
\* fallback, and one whose orders call returned a collection with orders
C15_Witness ==
    /\ \E r \in DetailsAnswered :
         UserNotFound(r) /\ OrdersFellBack(r) /\ req[r].status = 404
    /\ \E r \in DetailsAnswered :
         /\ UserNotFound(r) /\ req[r].status = 404
         /\ req[r].call2.result.kind = "response"
         /\ req[r].call2.result.data # {}

\* the orders of collection os that belong to user id
OrdersOf(os, id) == {o \in os : o.userId = id}

\* C16: a successful aggregated read returns, with the user, exactly the
\* orders of the orders service's collection whose userId is the id of
\* that user: none of another user's orders, none of the user's missing.
C16_ExactlyTheUsersOrders ==
    \A r \in DetailsAnswered :
      req[r].status = 200 /\ UserAnswered(r) =>
        req[r].resData.orders =
          OrdersOf(req[r].call2.result.data, req[r].resData.user)

(***************************************************************************)
(* Properties of the order routes' events                                  *)
(***************************************************************************)
\* the requests to the routes that publish events
EventRequests ==
    {r \in Slots : req[r].route \in EventRoutes /\ req[r].pc # "idle"}

\* those the gateway has answered
EventAnswered == {r \in EventRequests : req[r].pc \in {"responded", "done"}}

\* the request was answered with a success status
Succeeded(r) == req[r].status \in 200..299

\* C17: a request to an order route that is still in progress has published
\* nothing; an answered one has published exactly one event when its
\* response is a success and none otherwise (a guard's or limiter's
\* rejection, an upstream's refusal, the 500 sent for the fallback).
C17_OneEventPerSuccess ==
    /\ \A r \in EventRequests \ EventAnswered : req[r].events = <<>>
    /\ \A r \in EventAnswered :
         /\ Succeeded(r) => Len(req[r].events) = 1
         /\ ~Succeeded(r) => req[r].events = <<>>

\* C17 happens: a successful creation with its event, while a rejected
\* request and one answered from the fallback have none
C17_Witness ==
    /\ \E r \in EventAnswered :
         req[r].status = 201 /\ Len(req[r].events) = 1
    /\ \E r \in EventAnswered :
         /\ req[r].events = <<>>
         /\ \/ req[r].status \in {401, 403, 429}
            \/ ChangeCall(req[r]).result.kind = "fallback"

\* the kind of handler that serves request r
KindOf(r) == RouteTable[req[r].route].kind

\* C18: every event a handler publishes carries, as its aggregateId, the id
\* of the order its request is about: for order.created the id of the
\* order the upstream returned, for order.status.updated and
\* order.cancelled the orderId of the path.
C18_AggregateIsTheOrder ==
    \A r \in EventRequests :
      \A i \in 1..Len(req[r].events) :
        LET e == req[r].events[i] IN
        IF KindOf(r) = "create"
          THEN /\ e.type = "order.created"
               /\ e.aggregateId = req[r].call.result.data.data.id
               /\ e.aggregateId \in DOMAIN fakeOrdersDb
        ELSE /\ e.type = IF KindOf(r) = "status" THEN "order.status.updated"
                         ELSE "order.cancelled"
             /\ e.aggregateId = req[r].body.orderId

\* C18 happens: an order.created event for a stored order whose id differs
\* from its user's, and an event of a PATCH route for the order of its path
C18_Witness ==
    /\ \E r \in EventAnswered :
         /\ KindOf(r) = "create" /\ Len(req[r].events) = 1
         /\ req[r].events[1].aggregateId \in DOMAIN fakeOrdersDb
         /\ fakeOrdersDb[req[r].events[1].aggregateId].userId
              # req[r].events[1].aggregateId
    /\ \E r \in EventAnswered :
         /\ KindOf(r) \in {"status", "cancel"} /\ Len(req[r].events) = 1
         /\ req[r].events[1].aggregateId = req[r].body.orderId

\* C19: the response of an order handler is the upstream's result as the
\* handler sends it, whether publish returned or raised.
C19_ResponseIgnoresPublishing ==
    \A r \in EventAnswered :
      req[r].call.st # "none" =>
        LET out == SendResult(ChangeCall(req[r]).result) IN
        /\ req[r].status = out.status
        /\ req[r].resBody = out.body

\* C19 happens: a creation and a PATCH whose publish raised, answered with
\* the upstream's 201 and 200
C19_Witness ==
    /\ \E r \in EventAnswered :
         /\ req[r].published = "raised" /\ req[r].status = 201
         /\ req[r].resBody = "upstream"
    /\ \E r \in EventAnswered :
         /\ req[r].published = "raised" /\ req[r].status = 200
         /\ req[r].resBody = "upstream"

(***************************************************************************)
(* Properties of the EventPublisher                                        *)
(***************************************************************************)
\* C20: a call of publish never raises to its caller, whatever fails while
\* it delivers the event.
C20_PublishNeverRaises == publisher.last.outcome # "raised"

\* a call of publish that got past its first logger call ends in this step
Notifies == publisher'.last # publisher.last /\ publisher'.last.notified

Created ==
    {r \in EventAnswered : KindOf(r) = "create" /\ Len(req[r].events) = 1}

\* C22: the data of an order.created event are those of the order the
\* upstream returned: its id, userId, items, totalAmount and status.
C22_EventDataFromUpstream ==
    \A r \in Created :
      LET order == req[r].call.result.data.data
          data == req[r].events[1].data
      IN /\ data.orderId = order.id
         /\ data.userId = order.userId
         /\ data.items = order.items
         /\ data.totalAmount = order.totalAmount
         /\ data.status = order.status

RECURSIVE SumOfItems(_, _)
\* the sum of quantity times price over the items of a body from the i-th
SumOfItems(items, i) ==
    IF i > Len(items) THEN 0
    ELSE items[i].quantity * items[i].price + SumOfItems(items, i + 1)

\* the answered creations whose call the orders service answered and whose
\* body, for a stored user, has valid items and no totalAmount
CreationsWithoutTotal ==
    {r \in EventAnswered :
       /\ KindOf(r) = "create"
       /\ req[r].call.result.kind = "response"
       /\ createOrderSchema(req[r].body)
       /\ req[r].body.userId \in DOMAIN fakeUsersDb
       /\ req[r].body.totalAmount = Undefined}

ForwardedAnswers ==
    {r \in Slots : /\ req[r].pc \in {"responded", "done"}
                   /\ req[r].route \in ForwardRoutes
                   /\ req[r].call.result.kind = "response"}

\* C25: on every forwarding route the response to a request whose call the
\* upstream answered has the upstream's status and the upstream's body,
\* whether the status is a success or an error.
C25_ForwardedAsIs ==
    \A r \in ForwardedAnswers :
      /\ req[r].status = req[r].call.result.status
      /\ req[r].resBody = "upstream"

\* C25 happens: an upstream's 409 and an upstream's 503 have been forwarded
C25_Witness ==
    /\ 1 \in ForwardedAnswers /\ req[1].status = 409
    /\ 2 \in ForwardedAnswers /\ req[2].status = 503

(***************************************************************************)
(* Properties of the users service's store                                 *)
(***************************************************************************)
\* no two stored users have the same email
UniqueEmails ==
    \A i, j \in DOMAIN fakeUsersDb :
      fakeUsersDb[i].email = fakeUsersDb[j].email => i = j

\* the users service answers in this step the request r, a registration
\* or creation with an email that is stored
AnswersTakenEmail(r) ==
    /\ req[r].pc = "waiting" /\ req'[r].pc # "waiting"
    /\ req[r].route \in {"register", "postUser"}
    /\ \E id \in DOMAIN fakeUsersDb : fakeUsersDb[id].email = req[r].body.email

\* C23: no two stored users ever have the same email; a registration or
\* creation with a stored email is answered 409, leaves the store as it
\* is, and the gateway's response is that 409 with the upstream's body.
C23_EmailsUnique ==
    /\ []UniqueEmails
    /\ [][\A r \in Slots :
            AnswersTakenEmail(r) =>
              /\ req'[r].call.result = Response(409)
              /\ fakeUsersDb' = fakeUsersDb /\ currentId' = currentId
              /\ req'[r].status = 409 /\ req'[r].resBody = "upstream"]_vars

\* C23 happens: two users are stored, a registration and a creation with a
\* stored email have been answered 409
C23_Witness ==
    /\ Cardinality(DOMAIN fakeUsersDb) = 2
    /\ req[1].route = "register" /\ req[1].status = 409
    /\ req[2].route = "postUser" /\ req[2].status = 409

(***************************************************************************)
(* Properties of what the breakers record                                  *)
(***************************************************************************)
\* in this step the call of request r comes back with a response whose
\* status is in S
AnswersWith(r, S) ==
    /\ req[r].pc = "waiting" /\ req[r].call.st = "inflight"
    /\ req'[r].call.result.kind = "response"
    /\ req'[r].call.result.status \in S

\* the breaker of the route of request r
BreakerOf(r) == RouteTable[req[r].route].up

\* C26: a call that comes back with a 4xx response is not recorded as a
\* failure: the window of its breaker is as before, a Closed breaker stays
\* Closed and goes on admitting calls.
C26_ClientErrorIsNoFailure ==
    [][\A r \in Slots :
         AnswersWith(r, 400..499) =>
           LET u == BreakerOf(r) IN
           /\ circuit'[u].window = circuit[u].window
           /\ circuit[u].state = "closed" =>
                circuit'[u].state = "closed" /\ CircuitAdmits(circuit'[u])]_vars

\* C26 happens: both calls in progress came back with 404, the breaker has
\* counted two fires and no failure and is Closed
C26_Witness ==
    /\ \A r \in Slots : /\ req[r].route = "usersStatus"
                        /\ req[r].call.result = Response(404)
    /\ circuit["users"].state = "closed"
    /\ Stats(circuit["users"]).fires >= 2
    /\ Stats(circuit["users"]).failures = 0

\* C27 as stated: a call that comes back with a 5xx response is recorded
\* as a failure of its breaker.
C27_ServerErrorIsFailure ==
    [][\A r \in Slots :
         AnswersWith(r, 500..599) =>
           Stats(circuit'[BreakerOf(r)]).failures =
             Stats(circuit[BreakerOf(r)]).failures + 1]_vars

\* in this step the call of request r, which reached axios, fails or times
\* out
ComesBackFailed(r) ==
    /\ req[r].pc = "waiting" /\ req[r].call.st = "inflight"
    /\ req'[r].call.result.kind = "fallback"

\* C27 amended: a call that comes back with a 5xx response is recorded like
\* any response, as a success: the window of its breaker is as before, a
\* Closed breaker stays Closed and a Half-Open one closes; only a call that
\* times out or whose connection fails adds a failure.
C27_ServerErrorIsSuccess ==
    [][\A r \in Slots :
         LET u == BreakerOf(r) IN
         /\ AnswersWith(r, 500..599) =>
              /\ circuit'[u].window = circuit[u].window
              /\ circuit[u].state \in {"closed", "halfOpen"} =>
                   circuit'[u].state = "closed"
         /\ ComesBackFailed(r) =>
              Stats(circuit'[u]).failures = Stats(circuit[u]).failures + 1]_vars

\* C27 happens: the probe of a Half-Open breaker came back with 500 and the
\* breaker is Closed, its window holding the failure that had opened it
C27_Witness ==
    \E r \in Slots :
      /\ req[r].call.firedIn = "halfOpen"
      /\ req[r].call.result = Response(500)
      /\ circuit[BreakerOf(r)].state = "closed"
      /\ Stats(circuit[BreakerOf(r)]).failures >= 1

\* this step is an event of upstream u's breaker: a request to a route of
\* u arrives, its call comes back or times out, or the breaker's reset
\* timer expires
EventOn(u) ==
    /\ now' = now
    /\ \/ circuit'[u] # circuit[u]
       \/ \E r \in Slots :
            /\ req'[r] # req[r]
            /\ RouteTable[IF req[r].pc = "idle" THEN req'[r].route
                          ELSE req[r].route].up = u

\* C28: an event of one upstream's breaker (a fire, a call's outcome, the
\* reset timer) leaves the other breaker's state and window as they are,
\* and the passing of time changes each breaker's window by that window
\* alone.
C28_BreakersIndependent ==
    [][\A u \in Upstreams : \A o \in Upstreams \ {u} :
         /\ EventOn(u) => circuit'[o] = circuit[o]
         /\ now' # now => circuit'[o] = RotateWindow(circuit[o])]_vars

\* C28 happens: the orders breaker is Open after failures, and a call to
\* the users upstream fired after the opening is in flight on a Closed
\* users breaker without failures
C28_Witness ==
    /\ circuit["orders"].state = "open"
    /\ circuit["users"].state = "closed"
    /\ Stats(circuit["users"]).failures = 0
    /\ \E r \in Slots :
         /\ req[r].route = "usersStatus" /\ req[r].call.st = "inflight"
         /\ req[r].call.startedAt > circuit["orders"].resetTimer - ResetTimeout

\* in this step the Closed breaker of upstream u becomes Open
Opens(u) == circuit[u].state = "closed" /\ circuit'[u].state = "open"

\* C29 as stated: a Closed breaker becomes Open only when the failure ratio
\* of its window exceeds the threshold and the window holds a sample of
\* requests, more than the failed call alone.
C29_OpensOnlyOnSample ==
    [][\A u \in Upstreams :
         Opens(u) => /\ ErrorRateExceeded(Stats(circuit'[u]))
                     /\ Stats(circuit'[u]).fires > 1]_vars

\* C29 amended: a Closed breaker becomes Open only at a recorded failure
\* that leaves the failure ratio of its window above the threshold; no
\* minimum sample is configured (volumeThreshold is 0), so the failure of
\* the only call in the window opens it.
C29_OpensOnRatioAlone ==
    [][\A u \in Upstreams :
         /\ Opens(u) => /\ FailureRecorded(u)
                        /\ ErrorRateExceeded(Stats(circuit'[u]))
                        /\ Stats(circuit'[u]).fires >= VolumeThreshold
         /\ (/\ circuit[u].state = "closed" /\ FailureRecorded(u)
             /\ Stats(circuit'[u]).fires = 1) => circuit'[u].state = "open"]_vars

\* C29 happens: a breaker is Open whose window holds one call, which failed
C29_Witness ==
    \E u \in Upstreams :
      /\ circuit[u].state = "open"
      /\ Stats(circuit[u]) = [fires |-> 1, failures |-> 1]

(***************************************************************************)
(* Properties of the timeout                                               *)
(***************************************************************************)
\* in this step the changing call of request r times out
TimesOut(r) == OrderCallDue(r) /\ ChangeCall(req'[r]).result = Fallback

\* C30 as stated: when the changing call of a request exceeds the timeout,
\* its breaker records a failure, the request to the upstream is aborted
\* (it is no longer in flight), and the client gets neither an upstream's
\* answer nor does an event get published.
C30_TimeoutAbortsCall ==
    [][\A r \in Slots :
         TimesOut(r) =>
           /\ Stats(circuit'["orders"]).failures =
                Stats(circuit["orders"]).failures + 1
           /\ ~req'[r].late
           /\ req'[r].resBody # "upstream"
           /\ req'[r].events = <<>>]_vars

\* C30 amended: no call is in flight beyond the timeout; a call that times
\* out is recorded as a failure of its breaker and answered without the
\* upstream's result and without an event, while its request to the upstream stays in flight (it is not
\* aborted); the upstream's late answer changes neither the response, nor
\* the events, nor the breakers.
C30_TimeoutDropsLateResult ==
    /\ [](\A r \in Slots :
            (req[r].pc = "ordering" /\ ChangeCall(req[r]).st = "inflight")
              => now <= ChangeCall(req[r]).startedAt + Timeout)
    /\ [][\A r \in Slots :
            /\ TimesOut(r) =>
                 /\ Stats(circuit'["orders"]).failures =
                      Stats(circuit["orders"]).failures + 1
                 /\ req'[r].late
                 /\ req'[r].resBody # "upstream"
                 /\ req'[r].events = <<>>
            /\ (req[r].late /\ req'[r].pc # "idle" /\ ~req'[r].late) =>
                 /\ req'[r] = [req[r] EXCEPT !.late = FALSE]
                 /\ circuit' = circuit /\ publisher' = publisher]_vars

\* C30 happens: the only request sent was answered 500 after its call timed
\* out, without an event, and the orders service has since stored its
\* order and answered
C30_Witness ==
    /\ generalHits["ip1"] = GeneralMax - NearLimit + 1
    /\ Cardinality(DOMAIN fakeOrdersDb) = 1
    /\ \E r \in Slots :
         /\ req[r].status = 500 /\ req[r].call.result = Fallback
         /\ ~req[r].late /\ req[r].events = <<>>

(***************************************************************************)
(* Properties of the users list                                            *)
(***************************************************************************)
\* the requests to the users-list route whose call was sent to the upstream
ListCalls == {r \in Slots : req[r].route = "getUsers" /\ req[r].call.sent}

\* C31: whatever the page and limit parameters of a users-list request,
\* the page passed to the upstream is an integer of at least 1 (1 when the
\* parameter is absent) and the limit an integer between 1 and 100 (10
\* when absent).
C31_PassedPageAndLimitInRange ==
    \A r \in ListCalls :
      LET passed == PassedQuery(req[r].body) IN
      /\ passed.page \in Nat /\ passed.page >= 1
      /\ req[r].body.page = "-" => passed.page = 1
      /\ passed.limit \in 1..100
      /\ req[r].body.limit = "-" => passed.limit = 10

\* the users-list requests answered with the envelope
ListAnswers ==
    {r \in ListCalls : /\ req[r].pc \in {"responded", "done"}
                       /\ req[r].resBody = "listEnvelope"}

\* C32: the envelope of a users list has as pagination total and
\* totalPages those the users service reported for the query, and the
\* filters applied.
C32_EnvelopeEchoesPagination ==
    \A r \in ListAnswers :
      LET reported == req[r].call.result.data.pagination
          sent == req[r].resData
      IN /\ sent.pagination.total = reported.total
         /\ sent.pagination.totalPages = reported.totalPages
         /\ sent.filters.role = req[r].body.role

(***************************************************************************)
(* Properties of the broker path                                           *)
(***************************************************************************)
\* C33: an EventPublisher used through connectMessageBroker, subscribe and
\* publish never has a broker set or enabled, and no publish invokes
\* publishToMessageBroker: what a publish delivers is delivered to the
\* local subscribers.
C33_BrokerPathInert ==
    /\ publisher.messageBroker = "null"
    /\ ~publisher.isMessageBrokerEnabled
    /\ ~publisher.last.brokerCalled

\* C33 happens: after connectMessageBroker a publish has notified two
\* local subscribers and has not invoked the broker path
C33_Witness ==
    /\ publisher.connected
    /\ publisher.last.notified
    /\ Len(publisher.last.invoked) = 4
    /\ ~publisher.last.brokerCalled

(***************************************************************************)
(* Properties of the health route                                          *)
(***************************************************************************)
\* request r is served by the handler of GET /health in this step
HealthServed(r) ==
    /\ req[r].pc = "idle"
    /\ req'[r].route = "health"
    /\ req'[r].status = 200

\* the step fires no upstream call and leaves the breakers as they were
HealthReadOnly(r) ==
    /\ circuit' = circuit
    /\ req'[r].call = NoCall
    /\ req'[r].call2 = NoCall
    /\ \A q \in Slots \ {r} : req'[q] = req[q]

\* the frame of the health route alone: serving GET /health fires no
\* upstream call and leaves both breakers' states and windows unchanged
HealthLeavesBreakers ==
    [][\A r \in Slots : HealthServed(r) => HealthReadOnly(r)]_vars

\* C34: serving GET /health fires no upstream call, leaves both breakers
\* unchanged, and reports each breaker's current state: two breakers whose
\* entries in the report are equal are in the same state.
C34_HealthReportsState ==
    [][\A r \in Slots :
         HealthServed(r) =>
           /\ HealthReadOnly(r)
           /\ req'[r].resData["users"] = req'[r].resData["orders"]
                 => circuit["users"].state = circuit["orders"].state]_vars

\* a health request answered while the users breaker is open with a call
\* counted in its window
C34_Witness ==
    \E r \in Slots :
      /\ req[r].route = "health"
      /\ req[r].status = 200
      /\ req[r].pc = "done"
      /\ circuit["users"].state = "open"
      /\ req[r].resData["users"].stats.failures = 1

(***************************************************************************)
(* Properties of the aggregated read, continued                            *)
(***************************************************************************)
\* C35: the aggregated user-detail read answers a success envelope only when
\* the users lookup returned a 2xx user record: a users call that ended in
\* the breaker's fallback or in an error status never gives success: true.
C35_SuccessOnlyWithUserRecord ==
    \A r \in Slots :
      (/\ req[r].route = "userDetails"
       /\ req[r].pc \in {"responded", "done"}
       /\ req[r].resBody = "detailsEnvelope")
        => /\ req[r].call.result.kind = "response"
           /\ req[r].call.result.status \in 200..299

(***************************************************************************)
(* Properties of the handlers' termination                                 *)
(***************************************************************************)
\* the handler of request r awaits an upstream call
InHandler(r) == req[r].pc \in {"waiting", "reading", "ordering"}

\* the response of request r has been sent
Answered(r) == req[r].pc \in {"responded", "done"} /\ req[r].status # 0

\* C36: every request admitted to a route handler eventually receives a
\* response, whether the upstream answers, fails, never answers or its
\* breaker is open, and receives one response only: once sent, the response
\* is not followed by another until the slot serves the next request.
C36_ExactlyOneResponse ==
    /\ \A r \in Slots : InHandler(r) ~> Answered(r)
    /\ [][\A r \in Slots :
            Answered(r) =>
              \/ req'[r] = IdleReq
              \/ /\ req'[r].status = req[r].status
                 /\ req'[r].resBody = req[r].resBody
                 /\ req'[r].events = req[r].events
                 /\ req'[r].pc \in {"responded", "done"}]_vars

\* PATCH status answered after its read was answered and its change timed
\* out, while the breaker is open
C36_Witness ==
    \E r \in Slots :
      /\ req[r].route = "patchStatus"
      /\ Answered(r)
      /\ req[r].call.result.kind = "response"
      /\ req[r].call2.result = Fallback
      /\ req[r].late
      /\ circuit["orders"].state = "open"

(***************************************************************************)
(* Properties of the stored roles                                          *)
(***************************************************************************)
\* the users service answers request r in this step
UsersAnswer(r) ==
    /\ req[r].pc = "waiting" /\ req[r].call.st = "inflight"
    /\ req'[r].call.st = "resolved"

\* the step stores a user whose roles are not [Customer] or changes the
\* roles of a stored user
StoresOtherRoles ==
    \E id \in DOMAIN fakeUsersDb' :
      IF id \in DOMAIN fakeUsersDb
        THEN fakeUsersDb'[id].roles # fakeUsersDb[id].roles
      ELSE fakeUsersDb'[id].roles # {"Customer"}

\* the step leaves the roles and passwordHash of every stored user as they
\* were
KeepsCredentials ==
    \A id \in DOMAIN fakeUsersDb :
      /\ id \in DOMAIN fakeUsersDb'
      /\ fakeUsersDb'[id].roles = fakeUsersDb[id].roles
      /\ fakeUsersDb'[id].passwordHash = fakeUsersDb[id].passwordHash

NewOrders == DOMAIN fakeOrdersDb' \ DOMAIN fakeOrdersDb

\* C38: the orders service stores a new order only when the users service
\* holds the order's userId at creation time; in every other case, the
\* check that cannot be completed included, POST /orders stores nothing.
C38_OrderOnlyForKnownUser ==
    [][\A id \in NewOrders :
         fakeOrdersDb'[id].userId \in DOMAIN fakeUsersDb]_vars

\* C39: every stored order's totalAmount is the sum of its items' subtotals
\* and every item's subtotal is its quantity times its price.
C39_TotalIsSumOfSubtotals ==
    \A id \in DOMAIN fakeOrdersDb :
      LET order == fakeOrdersDb[id] IN
      /\ order.totalAmount = SumSubtotals(order.items, 1)
      /\ \A i \in DOMAIN order.items :
           order.items[i].subtotal
             = order.items[i].quantity * order.items[i].price

\* every stored record is under its own id, below the store's counter
KeysAreIds ==
    /\ \A id \in DOMAIN fakeUsersDb :
         fakeUsersDb[id].id = id /\ id < currentId
    /\ \A id \in DOMAIN fakeOrdersDb :
         fakeOrdersDb[id].id = id /\ id < orderCurrentId

\* C40: in both services ids are unique and never reused: every store key
\* is the id of the record it holds, the counters never go back, and a new
\* record's id is the counter's value, above every id issued before.
C40_IdsNeverReused ==
    /\ []KeysAreIds
    /\ [][/\ currentId' >= currentId
          /\ orderCurrentId' >= orderCurrentId
          /\ \A id \in DOMAIN fakeUsersDb' \ DOMAIN fakeUsersDb :
               id = currentId /\ currentId' = id + 1
          /\ \A id \in NewOrders :
               id = orderCurrentId /\ orderCurrentId' = id + 1]_vars

\* in both services the first record was deleted and the one created after
\* it has the next id
C40_Witness ==
    /\ DOMAIN fakeUsersDb = {2} /\ currentId = 3
    /\ DOMAIN fakeOrdersDb = {2} /\ orderCurrentId = 3
====
